---- MODULE Spec2Model ----
(***************************************************************************)
(* Model of the conditional-visibility rule engine of formsuite            *)
(* (src/rules-core.js): rule aggregation and de-duplication, schema        *)
(* reference resolution, value sanitizing, rule normalization and the two  *)
(* evaluation passes (headings, fields/options).                           *)
(*                                                                         *)
(* JavaScript strings are modelled as sequences of one-character strings,  *)
(* so that trim / toLowerCase / split / includes / __slug are computed as  *)
(* the code computes them.  JavaScript values are tagged records           *)
(* [t |-> <type tag>, v |-> <payload>].                                    *)
(***************************************************************************)
EXTENDS Integers, Sequences, FiniteSets, TLC

VARIABLES
    op,        \* name of the operation applied last ("init" before any)
    schema,    \* FormSchema.fields : sequence of field records
    vals,      \* raw value bag : function field-key -> JS value
    rules,     \* rule list handed to the operation
    base,      \* heading baseline (flat sequence of heading records)
    ref,       \* a loose reference handed to the resolver
    pos,       \* evaluation fold: number of rules already folded
    out,       \* result of the operation (visibility map, rule list, ...)
    out2       \* result of re-applying the operation to its own result

vars == <<op, schema, vals, rules, base, ref, pos, out, out2>>

\* Placeholder for a variable an operation does not use.
None == [t |-> "none"]

(***************************************************************************)
(* Strings                                                                 *)
(***************************************************************************)

LowerLetters ==
    {"a","b","c","d","e","f","g","h","i","j","k","l","m",
     "n","o","p","q","r","s","t","u","v","w","x","y","z"}

UpperLetters ==
    {"A","B","C","D","E","F","G","H","I","J","K","L","M",
     "N","O","P","Q","R","S","T","U","V","W","X","Y","Z"}

Digits == {"0","1","2","3","4","5","6","7","8","9"}

\* Characters matched by /[a-z0-9]/i (rules-core.js:8).
AlnumChars == LowerLetters \cup UpperLetters \cup Digits

\* String.prototype.toLowerCase on one character.
LowerChar(c) ==
    CASE c = "A" -> "a" [] c = "B" -> "b" [] c = "C" -> "c" [] c = "D" -> "d"
      [] c = "E" -> "e" [] c = "F" -> "f" [] c = "G" -> "g" [] c = "H" -> "h"
      [] c = "I" -> "i" [] c = "J" -> "j" [] c = "K" -> "k" [] c = "L" -> "l"
      [] c = "M" -> "m" [] c = "N" -> "n" [] c = "O" -> "o" [] c = "P" -> "p"
      [] c = "Q" -> "q" [] c = "R" -> "r" [] c = "S" -> "s" [] c = "T" -> "t"
      [] c = "U" -> "u" [] c = "V" -> "v" [] c = "W" -> "w" [] c = "X" -> "x"
      [] c = "Y" -> "y" [] c = "Z" -> "z"
      [] OTHER -> c

ToLower(s) == [i \in 1..Len(s) |-> LowerChar(s[i])]

\* String.prototype.toUpperCase on one character.
UpperChar(c) ==
    IF \E u \in UpperLetters : LowerChar(u) = c /\ u # c
    THEN CHOOSE u \in UpperLetters : LowerChar(u) = c
    ELSE c

ToUpper(s) == [i \in 1..Len(s) |-> UpperChar(s[i])]

\* Whitespace removed by String.prototype.trim.
IsSpace(c) == c = " "

RECURSIVE TrimLeft(_)
TrimLeft(s) ==
    IF s # <<>> /\ IsSpace(Head(s)) THEN TrimLeft(Tail(s)) ELSE s

RECURSIVE TrimRight(_)
TrimRight(s) ==
    IF s # <<>> /\ IsSpace(s[Len(s)])
    THEN TrimRight(SubSeq(s, 1, Len(s) - 1))
    ELSE s

Trim(s) == TrimRight(TrimLeft(s))

\* s.startsWith(p) at offset i (1-based).
MatchAt(s, p, i) ==
    /\ i + Len(p) - 1 <= Len(s)
    /\ \A k \in 1..Len(p) : s[i + k - 1] = p[k]

\* s.includes(p)
Includes(s, p) == \E i \in 1..(Len(s) + 1) : MatchAt(s, p, i)

\* Position of the first occurrence of p in s, 0 when there is none.
IndexOf(s, p) ==
    IF Includes(s, p)
    THEN CHOOSE i \in 1..(Len(s) + 1) :
            /\ MatchAt(s, p, i)
            /\ \A j \in 1..(i - 1) : ~MatchAt(s, p, j)
    ELSE 0

\* s.split(p) for a non-empty separator p : sequence of strings.
RECURSIVE Split(_, _)
Split(s, p) ==
    LET i == IndexOf(s, p) IN
    IF i = 0 THEN <<s>>
    ELSE <<SubSeq(s, 1, i - 1)>> \o Split(SubSeq(s, i + Len(p), Len(s)), p)

\* parts.join(sep)
RECURSIVE Join(_, _)
Join(parts, sep) ==
    IF parts = <<>> THEN <<>>
    ELSE IF Len(parts) = 1 THEN parts[1]
    ELSE parts[1] \o sep \o Join(Tail(parts), sep)

\* The option-composite delimiter "__opt__".
OPT == <<"_","_","o","p","t","_","_">>

COLON == <<":">>

\* normalize('NFKD') followed by removal of the combining marks
\* U+0300..U+036F, on one character (rules-core.js:7).  An accented letter
\* is written as the letter followed by an apostrophe: "e'" is U+00E9.
StripDiacritic(c) ==
    CASE c = "e'" -> "e" [] c = "E'" -> "E" [] c = "u'" -> "u" [] OTHER -> c

\* .replace(/[^a-z0-9]+/gi, '_') : every maximal run of other characters
\* becomes one underscore.
RECURSIVE CollapseNonAlnum(_, _)
CollapseNonAlnum(s, inRun) ==
    IF s = <<>> THEN <<>>
    ELSE IF Head(s) \in AlnumChars
         THEN <<Head(s)>> \o CollapseNonAlnum(Tail(s), FALSE)
         ELSE IF inRun THEN CollapseNonAlnum(Tail(s), TRUE)
              ELSE <<"_">> \o CollapseNonAlnum(Tail(s), TRUE)

\* .replace(/^_+|_+$/g, '')
RECURSIVE StripUnderscoresLeft(_)
StripUnderscoresLeft(s) ==
    IF s # <<>> /\ Head(s) = "_" THEN StripUnderscoresLeft(Tail(s)) ELSE s

RECURSIVE StripUnderscoresRight(_)
StripUnderscoresRight(s) ==
    IF s # <<>> /\ s[Len(s)] = "_"
    THEN StripUnderscoresRight(SubSeq(s, 1, Len(s) - 1))
    ELSE s

\* __slug(s) for a string s.
Slug(s) ==
    ToLower(StripUnderscoresRight(StripUnderscoresLeft(
        CollapseNonAlnum([i \in 1..Len(s) |-> StripDiacritic(s[i])], FALSE))))

(***************************************************************************)
(* JavaScript values                                                       *)
(***************************************************************************)

Undef   == [t |-> "undef"]
Null    == [t |-> "null"]
NaN     == [t |-> "nan"]
Str(s)  == [t |-> "str", v |-> s]
Num(n)  == [t |-> "num", v |-> n]
Bool(b) == [t |-> "bool", v |-> b]
Arr(a)  == [t |-> "arr", v |-> a]
\* A Date instance: its ISO calendar day "YYYY-MM-DD", or an invalid Date.
DateOf(iso)  == [t |-> "date", valid |-> TRUE, iso |-> iso]
InvalidDate  == [t |-> "date", valid |-> FALSE, iso |-> <<>>]
\* An exception propagating out of a call.
Throw == [t |-> "throw"]
\* No own property under a key.
Absent == [t |-> "absent"]
\* A plain object as the ordered list of its own enumerable properties.
Obj(ps) == [t |-> "obj", props |-> ps]
Prop(k, v) == [k |-> k, v |-> v]

\* v == null  (null or undefined)
IsNullish(v) == v.t \in {"undef", "null"}

\* a ?? b
Coalesce(a, b) == IF IsNullish(a) THEN b ELSE a

\* !v
Falsy(v) ==
    \/ v.t \in {"undef", "null", "nan"}
    \/ (v.t = "num" /\ v.v = 0)
    \/ (v.t = "str" /\ v.v = <<>>)
    \/ (v.t = "bool" /\ ~v.v)

Truthy(v) == ~Falsy(v)

SeqsUpTo(S, n) == UNION {[1..k -> S] : k \in 0..n}

(***************************************************************************)
(* JavaScript Map: insertion-ordered list of [k, v] entries                *)
(***************************************************************************)

MapHas(m, k) == \E i \in 1..Len(m) : m[i].k = k

MapGet(m, k) ==
    IF MapHas(m, k)
    THEN m[CHOOSE i \in 1..Len(m) : m[i].k = k].v
    ELSE Undef

\* Map.prototype.set: an existing key keeps its place and takes the new value.
MapSet(m, k, v) ==
    IF MapHas(m, k)
    THEN [i \in 1..Len(m) |-> IF m[i].k = k THEN [k |-> k, v |-> v] ELSE m[i]]
    ELSE Append(m, [k |-> k, v |-> v])

\* String(o) for a plain object
S_objectObject == <<"[","o","b","j","e","c","t"," ","O","b","j","e","c","t","]">>

RECURSIVE DigitsOf(_)
DigitsOf(n) ==
    LET d == CASE n % 10 = 0 -> "0" [] n % 10 = 1 -> "1" [] n % 10 = 2 -> "2"
               [] n % 10 = 3 -> "3" [] n % 10 = 4 -> "4" [] n % 10 = 5 -> "5"
               [] n % 10 = 6 -> "6" [] n % 10 = 7 -> "7" [] n % 10 = 8 -> "8"
               [] OTHER -> "9"
    IN IF n < 10 THEN <<d>> ELSE DigitsOf(n \div 10) \o <<d>>

\* String(v)
RECURSIVE ToStr(_)
ToStr(v) ==
    CASE v.t = "str"   -> v.v
      [] v.t = "undef" -> <<"u","n","d","e","f","i","n","e","d">>
      [] v.t = "null"  -> <<"n","u","l","l">>
      [] v.t = "nan"   -> <<"N","a","N">>
      [] v.t = "bool"  -> IF v.v THEN <<"t","r","u","e">> ELSE <<"f","a","l","s","e">>
      [] v.t = "num"   -> IF v.v < 0 THEN <<"-">> \o DigitsOf(0 - v.v) ELSE DigitsOf(v.v)
      [] v.t = "arr"   ->
            \* Array.prototype.toString: join(","), null/undefined as ""
            Join([i \in 1..Len(v.v) |->
                    IF IsNullish(v.v[i]) THEN <<>> ELSE ToStr(v.v[i])], <<",">>)
      [] v.t = "date"  ->
            \* Date.prototype.toString: a local-time text, neither numeric
            \* nor of the ISO shape
            IF v.valid THEN <<"D","a","y"," ">> \o v.iso
            ELSE <<"I","n","v","a","l","i","d"," ","D","a","t","e">>
      [] OTHER -> S_objectObject

IsDigitString(s) == s # <<>> /\ \A i \in 1..Len(s) : s[i] \in Digits

DigitValue(c) ==
    CASE c = "0" -> 0 [] c = "1" -> 1 [] c = "2" -> 2 [] c = "3" -> 3
      [] c = "4" -> 4 [] c = "5" -> 5 [] c = "6" -> 6 [] c = "7" -> 7
      [] c = "8" -> 8 [] OTHER -> 9

RECURSIVE ParseDigits(_)
ParseDigits(s) ==
    IF s = <<>> THEN 0
    ELSE 10 * ParseDigits(SubSeq(s, 1, Len(s) - 1)) + DigitValue(s[Len(s)])

\* Number(s) for a string: whitespace is trimmed, "" is 0, an optionally
\* signed run of decimal digits is its value, anything else NaN.  (The
\* strings drawn as inputs hold no fraction, exponent, radix prefix or
\* "Infinity".)
StringToNumber(s) ==
    LET u == Trim(s) IN
    IF u = <<>> THEN Num(0)
    ELSE IF IsDigitString(u) THEN Num(ParseDigits(u))
    ELSE IF Head(u) = "-" /\ IsDigitString(Tail(u)) THEN Num(0 - ParseDigits(Tail(u)))
    ELSE NaN

\* Number(v)
ToNumber(v) ==
    CASE v.t = "num"   -> v
      [] v.t = "null"  -> Num(0)
      [] v.t = "bool"  -> IF v.v THEN Num(1) ELSE Num(0)
      [] v.t = "str"   -> StringToNumber(v.v)
      [] v.t = "arr"   -> StringToNumber(ToStr(v))
      [] OTHER         -> NaN

(***************************************************************************)
(* Schema indexes and the field resolver (rules-core.js:179-243)           *)
(*                                                                         *)
(* A field is [id, label, type, options, groups]: id and label are         *)
(* strings (label "" when the field has none), options a sequence of       *)
(* [value, label] with each a JS value (Str or Undef), groups the          *)
(* f.mc.groups list, each group its `items` sequence.                      *)
(***************************************************************************)

\* label = (o?.label ?? o?.text ?? o?.value ?? o)  for an option object
\* without a `text` key (rules-core.js:192).
OptionIndexLabel(o) ==
    IF ~IsNullish(o.label) THEN o.label
    ELSE IF ~IsNullish(o.value) THEN o.value
    ELSE Str(S_objectObject)

RECURSIVE FlattenGroups(_)
FlattenGroups(groups) ==
    IF groups = <<>> THEN <<>> ELSE Head(groups) \o FlattenGroups(Tail(groups))

\* The `opts` list collected for one field (rules-core.js:189-202).
FieldOptionKeys(f) ==
    LET flat  == [i \in 1..Len(f.options) |-> ToStr(OptionIndexLabel(f.options[i]))]
        items == SelectSeq(FlattenGroups(f.groups), LAMBDA it : ~IsNullish(it.value))
    IN flat \o [i \in 1..Len(items) |-> ToStr(items[i].value)]

RECURSIVE SetAllKeys(_, _, _)
SetAllKeys(m, keys, f) ==
    IF keys = <<>> THEN m
    ELSE SetAllKeys(MapSet(m, ToLower(Trim(Head(keys))), f), Tail(keys), f)

RECURSIVE BuildSchemaIndexFrom(_, _)
BuildSchemaIndexFrom(fields, idx) ==
    IF fields = <<>> THEN idx
    ELSE LET f == Head(fields) IN
         BuildSchemaIndexFrom(Tail(fields),
            [byId    |-> MapSet(idx.byId, f.id, f),
             byLabel |-> IF f.label # <<>>
                         THEN MapSet(idx.byLabel, ToLower(Trim(f.label)), f)
                         ELSE idx.byLabel,
             optionToField |-> SetAllKeys(idx.optionToField, FieldOptionKeys(f), f)])

\* __buildSchemaIndex(schema)
BuildSchemaIndex(fields) ==
    BuildSchemaIndexFrom(fields, [byId |-> <<>>, byLabel |-> <<>>, optionToField |-> <<>>])

\* The for-of loop over optionToField.entries() (rules-core.js:221-224):
\* the first entry whose slugged key equals the lower-cased slug.
OptionSlugOwner(entries, slug) ==
    LET hits == {i \in 1..Len(entries) : Slug(entries[i].k) = ToLower(slug)} IN
    IF hits = {} THEN Null
    ELSE entries[CHOOSE i \in hits : \A j \in hits : i <= j].v

\* Last element of s.split('__opt__')
LastPart(parts) == parts[Len(parts)]

\* The strategies tried after the option-composite branch
\* (rules-core.js:227-242).
ResolvePlain(idx, s) ==
    IF MapHas(idx.byId, s) THEN MapGet(idx.byId, s)
    ELSE IF MapHas(idx.byLabel, ToLower(s)) THEN MapGet(idx.byLabel, ToLower(s))
    ELSE LET part0 == Trim(Split(s, COLON)[1]) IN
         IF MapHas(idx.byLabel, ToLower(part0)) THEN MapGet(idx.byLabel, ToLower(part0))
         ELSE IF MapHas(idx.optionToField, ToLower(s))
              THEN MapGet(idx.optionToField, ToLower(s))
              ELSE Null

\* __resolveFieldRef(schema, raw): the field record, or Null.
ResolveFieldRef(fields, raw) ==
    IF Falsy(raw) THEN Null
    ELSE LET s   == Trim(ToStr(raw))
             idx == BuildSchemaIndex(fields)
         IN IF Includes(s, OPT)
            THEN LET parts  == Split(s, OPT)
                     baseId == parts[1]
                 IN IF MapHas(idx.byId, baseId) THEN MapGet(idx.byId, baseId)
                    ELSE LET own == OptionSlugOwner(idx.optionToField, LastPart(parts))
                         IN IF own # Null THEN own ELSE ResolvePlain(idx, s)
            ELSE ResolvePlain(idx, s)

(***************************************************************************)
(* Option index and option-composite references (rules-core.js:245-392)    *)
(***************************************************************************)

\* One catalog entry {value, label, slug} (rules-core.js:257-259, 266-268)
\* for an option object without `id` and `text` keys.
OptionEntry(o) ==
    LET value == IF ~IsNullish(o.value) THEN ToStr(o.value) ELSE S_objectObject
        label == IF ~IsNullish(o.label) THEN ToStr(o.label) ELSE value
    IN [value |-> value, label |-> label, slug |-> Slug(label)]

\* The record built for one field (rules-core.js:248-271).
OptionRec(f) ==
    LET all == f.options \o FlattenGroups(f.groups) IN
    [id      |-> f.id,
     label   |-> IF f.label # <<>> THEN f.label ELSE f.id,
     type    |-> f.type,
     options |-> [i \in 1..Len(all) |-> OptionEntry(all[i])]]

RECURSIVE BuildOptionIndexFrom(_, _)
BuildOptionIndexFrom(fields, m) ==
    IF fields = <<>> THEN m
    ELSE BuildOptionIndexFrom(Tail(fields),
                              MapSet(m, Head(fields).id, OptionRec(Head(fields))))

\* __buildOptionIndex(schema) : Map field id -> record
BuildOptionIndex(fields) == BuildOptionIndexFrom(fields, <<>>)

\* Array.prototype.find : first element satisfying Test, else undefined
FindFirst(seq, Test(_)) ==
    LET hits == {i \in 1..Len(seq) : Test(seq[i])} IN
    IF hits = {} THEN Undef
    ELSE seq[CHOOSE i \in hits : \A j \in hits : i <= j]

\* The predicate of rec.options.find (rules-core.js:303-310).
OptionSlugHit(o, wanted) ==
    /\ wanted # <<>>
    /\ \/ ToLower(o.slug) = wanted
       \/ Slug(o.label) = wanted
       \/ Slug(o.value) = wanted

OptRef(kind, fieldId, optionSlug, optionValue, optionLabel, id) ==
    [t |-> "optref", kind |-> kind, fieldId |-> fieldId, optionSlug |-> optionSlug,
     optionValue |-> optionValue, optionLabel |-> optionLabel, id |-> id]

S_unknown == <<"u","n","k","n","o","w","n">>

\* The descriptor returned for the option part of a reference, given the
\* find() result (rules-core.js:312-329).
OptionRefOf(fieldId, optSlug, hit) ==
    IF hit # Undef
    THEN OptRef("option", fieldId, Str(hit.slug), Str(hit.value), Str(hit.label),
                fieldId \o OPT \o hit.slug)
    ELSE OptRef("option", fieldId, Str(optSlug), Null, Null,
                fieldId \o OPT \o
                   (IF Slug(optSlug) # <<>> THEN Slug(optSlug)
                    ELSE IF optSlug # <<>> THEN optSlug ELSE S_unknown))

\* rec.options.find(...) over the option record of the field, if any
\* (rules-core.js:299-310).
FindOption(rec, wanted) ==
    IF rec # Undef /\ Len(rec.options) > 0
    THEN FindFirst(rec.options, LAMBDA o : OptionSlugHit(o, wanted))
    ELSE Undef

\* (rules-core.js:297-329), the canonical field id known.
ParseOptionOfField(fields, fieldId, optSlug) ==
    OptionRefOf(fieldId, optSlug,
                FindOption(MapGet(BuildOptionIndex(fields), fieldId), Slug(optSlug)))

\* const resolved = __resolveFieldRef(...); const fieldId = resolved?.id || fieldId0
CanonicalFieldId(resolved, fieldId0) ==
    IF resolved # Null THEN resolved.id ELSE fieldId0

\* (rules-core.js:289-329), the reference split at the first '__opt__'.
ParseOptionParts(fields, fieldId0, optSlug) ==
    ParseOptionOfField(fields,
                       CanonicalFieldId(ResolveFieldRef(fields, Str(fieldId0)), fieldId0),
                       optSlug)

\* (rules-core.js:283-329), the reference as a trimmed string.
ParseOptionRaw(fields, raw) ==
    IF raw = <<>> THEN Null
    ELSE IF ~Includes(raw, OPT) THEN OptRef("field", raw, Null, Null, Null, raw)
    ELSE ParseOptionParts(fields, Trim(Split(raw, OPT)[1]),
                          ToLower(Trim(Join(Tail(Split(raw, OPT)), OPT))))

\* __parseOptionFieldRef(schema, ref) : a descriptor, or Null
ParseOptionFieldRef(fields, r) ==
    ParseOptionRaw(fields, Trim(ToStr(Coalesce(r, Str(<<>>)))))

(***************************************************************************)
(* Heading baseline index (rules-core.js:396-594)                          *)
(*                                                                         *)
(* A baseline record is [id, idx, label, number] (JS values, Undef when    *)
(* absent); the aliases uid/key/text/title/num are not carried by the      *)
(* records drawn as inputs.  A target object is a record of JS values      *)
(* with every key the code reads.                                          *)
(***************************************************************************)

Heading(id, idx, label, number) ==
    [id |-> id, idx |-> idx, label |-> label, number |-> number]

EmptyTarget ==
    [t |-> "tgt", id |-> Undef, uid |-> Undef, idx |-> Undef, key |-> Undef,
     number |-> Undef, label |-> Undef, fieldId |-> Undef,
     optionValue |-> Undef, optionLabel |-> Undef]

\* The {id, idx, label} object normalizeTarget returns.
HeadingTarget(id, idx, label) ==
    [EmptyTarget EXCEPT !.id = Str(id), !.idx = Num(idx), !.label = Str(label)]

RECURSIVE PadStart(_, _, _)
PadStart(s, n, c) == IF Len(s) >= n THEN s ELSE PadStart(<<c>> \o s, n, c)

\* canonicalSecId(idx) = `sec_${String(idx).padStart(6, '0')}`
CanonicalSecId(idx) == <<"s","e","c","_">> \o PadStart(ToStr(Num(idx)), 6, "0")

\* An index that numbers the entries by array position, ignoring h.idx
StableIdxByPosition(h, arrayPos) == arrayPos

\* stableIdx (rules-core.js:428)
StableIdx(h, arrayPos) ==
    IF ToNumber(h.idx) # NaN THEN ToNumber(h.idx).v ELSE arrayPos

\* The entry stored for the record at array position arrayPos
\* (rules-core.js:428-440).
HeadingEntry(h, arrayPos) ==
    LET stableIdx == StableIdx(h, arrayPos)
        id    == IF ~IsNullish(h.id) THEN ToStr(h.id) ELSE CanonicalSecId(stableIdx)
        label == IF Truthy(h.label) THEN ToStr(h.label) ELSE id
        num   == IF Truthy(h.number) THEN Trim(ToStr(h.number)) ELSE <<>>
    IN [id |-> id, idx |-> stableIdx, label |-> label, num |-> num]

RECURSIVE BuildHeadingIndexFrom(_, _, _)
BuildHeadingIndexFrom(flat, i, ix) ==
    IF i > Len(flat) THEN ix
    ELSE LET e == HeadingEntry(flat[i], i - 1) IN
         BuildHeadingIndexFrom(flat, i + 1,
            [flat     |-> ix.flat,
             byId     |-> MapSet(ix.byId, e.id, e),
             byIdx    |-> MapSet(ix.byIdx, ToStr(Num(e.idx)), e),
             byNumber |-> IF e.num # <<>> THEN MapSet(ix.byNumber, e.num, e)
                          ELSE ix.byNumber,
             bySlug   |-> IF Slug(e.label) # <<>> THEN MapSet(ix.bySlug, Slug(e.label), e)
                          ELSE ix.bySlug])

\* buildHeadingTargetIndex(baseline) for a baseline given as its flat array
BuildHeadingTargetIndex(flat) ==
    BuildHeadingIndexFrom(flat, 1,
        [flat |-> flat, byId |-> <<>>, byIdx |-> <<>>, byNumber |-> <<>>, bySlug |-> <<>>])

EntryTarget(e) == HeadingTarget(e.id, e.idx, e.label)

\* normalizeTarget for an object target (rules-core.js:454-510)
NormalizeObjectTarget(ix, tg) ==
    LET tid     == IF ~IsNullish(tg.id) THEN ToStr(tg.id) ELSE <<>>
        idxKey  == ToStr(ToNumber(tg.idx))
        keyKey  == ToStr(ToNumber(tg.key))
        numKey  == Trim(ToStr(tg.number))
        slug    == Slug(ToStr(tg.label))
    IN
    IF tid # <<>> /\ MapHas(ix.byId, tid) THEN EntryTarget(MapGet(ix.byId, tid))
    ELSE IF ~IsNullish(tg.uid) /\ MapHas(ix.byId, ToStr(tg.uid))
         THEN EntryTarget(MapGet(ix.byId, ToStr(tg.uid)))
    ELSE IF ~IsNullish(tg.idx) /\ ToNumber(tg.idx) # NaN /\ MapHas(ix.byIdx, idxKey)
         THEN EntryTarget(MapGet(ix.byIdx, idxKey))
    ELSE IF ~IsNullish(tg.key) /\ ToNumber(tg.key) # NaN /\ MapHas(ix.byIdx, keyKey)
         THEN EntryTarget(MapGet(ix.byIdx, keyKey))
    ELSE IF ~IsNullish(tg.number) /\ numKey # <<>> /\ MapHas(ix.byNumber, numKey)
         THEN EntryTarget(MapGet(ix.byNumber, numKey))
    ELSE IF Truthy(tg.label) /\ slug # <<>> /\ MapHas(ix.bySlug, slug)
         THEN EntryTarget(MapGet(ix.bySlug, slug))
    ELSE IF ~IsNullish(tg.idx) /\ ToNumber(tg.idx) # NaN
         THEN LET idx == ToNumber(tg.idx).v
                  id  == IF tid # <<>> THEN tid ELSE CanonicalSecId(idx)
              IN HeadingTarget(id, idx, IF Truthy(tg.label) THEN ToStr(tg.label) ELSE id)
    ELSE Null

\* normalizeTarget for a primitive target (rules-core.js:512-540)
NormalizePrimitiveTarget(ix, tg) ==
    LET s == Trim(ToStr(tg)) IN
    IF MapHas(ix.byId, s) THEN EntryTarget(MapGet(ix.byId, s))
    ELSE IF MapHas(ix.byIdx, s) THEN EntryTarget(MapGet(ix.byIdx, s))
    ELSE IF MapHas(ix.byNumber, s) THEN EntryTarget(MapGet(ix.byNumber, s))
    ELSE IF Slug(s) # <<>> /\ MapHas(ix.bySlug, Slug(s))
         THEN EntryTarget(MapGet(ix.bySlug, Slug(s)))
    ELSE IF StringToNumber(s) # NaN /\ MapHas(ix.byIdx, ToStr(StringToNumber(s)))
         THEN EntryTarget(MapGet(ix.byIdx, ToStr(StringToNumber(s))))
    ELSE Null

\* normalizeTarget(t) of the index ix : a target, or Null
NormalizeTarget(ix, tg) ==
    IF Falsy(tg) /\ tg # Num(0) THEN Null
    ELSE IF tg.t = "tgt" THEN NormalizeObjectTarget(ix, tg)
    ELSE NormalizePrimitiveTarget(ix, tg)

\* The tail of parseTargetIdx (rules-core.js:589-593): Number of the text
\* before the first "|"; NaN when that is not a number.
ParsePrimitiveIdx(tg) ==
    IF IsNullish(tg) THEN NaN
    ELSE StringToNumber(Split(ToStr(tg), <<"|">>)[1])

\* parseTargetIdx(t, headingResolver) : Num(idx) or NaN.  resolver is the
\* index built by buildHeadingTargetIndex, or None when the caller passes
\* no resolver.  Its resolveIdx re-enters parseTargetIdx with
\* {normalizeTarget} only (rules-core.js:543-547), which ends in the same
\* primitive parse.
ParseTargetIdx(tg, resolver) ==
    LET n == IF resolver = None THEN Null ELSE NormalizeTarget(resolver, tg) IN
    IF n # Null /\ ToNumber(n.idx) # NaN THEN ToNumber(n.idx)
    ELSE ParsePrimitiveIdx(tg)

(***************************************************************************)
(* Schemas used as inputs                                                  *)
(***************************************************************************)

Opt(value, label) == [value |-> value, label |-> label]

Field(id, label, type, options, groups) ==
    [id |-> id, label |-> label, type |-> type, options |-> options, groups |-> groups]

S_a      == <<"a">>
S_b      == <<"b">>
S_m      == <<"m">>
S_top    == <<"t","o","p">>
S_Top    == <<"T","o","p">>
S_Red    == <<"R","e","d">>
S_red    == <<"r","e","d">>
S_r      == <<"r">>
S_x      == <<"x">>
S_N      == <<"N">>
S_North  == <<"N","o","r","t","h">>
S_Zone   == <<"Z","o","n","e">>
S_zz     == <<"z","z">>
S_a_opt_x   == S_a \o OPT \o S_x
S_q_opt_red == <<"q">> \o OPT \o S_red
S_Top_Red   == S_Top \o <<":"," ">> \o S_Red

\* select field "a", label "Top", options r/Red and x (no label)
F_a == Field(S_a, S_Top, "select",
             <<Opt(Str(S_r), Str(S_Red)), Opt(Str(S_x), Undef)>>, <<>>)
\* text field whose id is an option composite of field "a"
F_aOptX == Field(S_a_opt_x, <<"S","u","b">>, "text", <<>>, <<>>)
\* text field whose id is a composite with an unknown base and the slug of
\* an option label of field "a"
F_qOptRed == Field(S_q_opt_red, <<>>, "text", <<>>, <<>>)
\* text field whose id is the label of an option of field "a"
F_Red == Field(S_Red, <<>>, "text", <<>>, <<>>)
\* number field whose id is the lower-cased label of field "a"
F_top == Field(S_top, <<"N","u","m">>, "number", <<>>, <<>>)
\* multichoice field with one grouped item N/North
F_m == Field(S_m, S_Zone, "multichoice", <<>>, <<<<Opt(Str(S_N), Str(S_North))>>>>)
\* date field
F_b == Field(S_b, <<"D","a","y">>, "date", <<>>, <<>>)

FieldIds(fields) == {fields[i].id : i \in 1..Len(fields)}

\* Schemas of at most n fields of pool, with pairwise distinct ids.
SchemasOf(pool, n) ==
    {fs \in SeqsUpTo(pool, n) :
        /\ Len(fs) >= 1
        /\ \A i, j \in 1..Len(fs) : i # j => fs[i].id # fs[j].id}

(***************************************************************************)
(* Specification of the resolver: a schema, then one reference resolved    *)
(***************************************************************************)

\* Most fields in a schema handed to the resolver.
MaxResolveFields == 2

ResolveFieldPool == {F_a, F_aOptX, F_qOptRed, F_Red, F_top, F_m, F_b}

\* Loose references: ids, labels, "label: option", option labels and
\* values, composites, and one that names nothing.
ResolveRefPool ==
    {S_a, S_b, S_m, S_top, S_Top, S_Red, S_red, S_r, S_x, S_N, S_North, S_Zone,
     S_zz, S_a_opt_x, S_q_opt_red, S_Top_Red, <<" ">> \o S_a, <<>>}

InitResolve ==
    /\ op = "init"
    /\ schema \in SchemasOf(ResolveFieldPool, MaxResolveFields)
    /\ vals = None /\ rules = None /\ base = None /\ ref = None
    /\ pos = 0 /\ out = None /\ out2 = None

\* out = __resolveFieldRef(schema, ref)
Resolve ==
    /\ op = "init"
    /\ \E r \in ResolveRefPool :
          /\ ref' = Str(r)
          /\ out' = ResolveFieldRef(schema, Str(r))
    /\ op' = "resolveFieldRef"
    /\ UNCHANGED <<schema, vals, rules, base, pos, out2>>

NextResolve == Resolve

SpecResolve == InitResolve /\ [][NextResolve]_vars

\* C7: resolver identity -- for every schema with unique field ids and
\* every field f of it, __resolveFieldRef(schema, f.id) returns f itself,
\* also when f.id contains "__opt__" or coincides with another field's
\* label or option label.
C7_ResolverIdentity ==
    op = "resolveFieldRef" =>
        \A i \in 1..Len(schema) : ref = Str(schema[i].id) => out = schema[i]

(***************************************************************************)
(* sanitizeValues (rules-core.js:598-682)                                  *)
(*                                                                         *)
(* A value bag is a function from keys (strings) to JS values; a key       *)
(* outside its domain is an absent property.                               *)
(***************************************************************************)

\* vals?.[id]
BagGet(bag, k) == IF k \in DOMAIN bag THEN bag[k] ELSE Undef

\* o.k for a plain object (the last property of that name), else undefined
GetProp(o, k) ==
    IF o.t = "obj" /\ \E i \in 1..Len(o.props) : o.props[i].k = k
    THEN o.props[CHOOSE i \in 1..Len(o.props) :
                    /\ o.props[i].k = k
                    /\ \A j \in (i + 1)..Len(o.props) : o.props[j].k # k].v
    ELSE Undef

\* typeof v === 'object'
IsObjectType(v) == v.t \in {"null", "arr", "obj", "date"}

\* A copy that keeps repeated items
UniqueSeqKeepAll(arr, acc) == arr

\* [...new Set(arr)] : first occurrences, in order
RECURSIVE UniqueSeq(_, _)
UniqueSeq(arr, acc) ==
    IF arr = <<>> THEN acc
    ELSE IF \E i \in 1..Len(acc) : acc[i] = Head(arr)
         THEN UniqueSeq(Tail(arr), acc)
         ELSE UniqueSeq(Tail(arr), Append(acc, Head(arr)))

\* { ...v } for v a plain object, an array or a Date
SpreadObject(v) ==
    CASE v.t = "obj" -> v
      [] v.t = "arr" -> Obj([i \in 1..Len(v.v) |-> Prop(ToString(i - 1), v.v[i])])
      [] OTHER       -> Obj(<<>>)

\* The entry written for one field by the per-type rules
\* (rules-core.js:602-673); Absent when the field gets no entry, Throw when
\* toISOString raises a RangeError on an invalid Date.
SanitizeField(f, v) ==
    CASE f.type = "datediff" ->
            IF Truthy(v) /\ IsObjectType(v)
            THEN LET fmt == ToStr(Coalesce(GetProp(v, "formatted"), Str(<<>>))) IN
                 IF fmt # <<>>
                 THEN Obj(<<Prop("days",   ToNumber(Coalesce(GetProp(v, "days"),   Num(0)))),
                            Prop("months", ToNumber(Coalesce(GetProp(v, "months"), Num(0)))),
                            Prop("years",  ToNumber(Coalesce(GetProp(v, "years"),  Num(0)))),
                            Prop("formatted", Str(fmt))>>)
                 ELSE Absent
            ELSE Absent
      [] f.type = "number" ->
            IF v = Str(<<>>) \/ IsNullish(v) THEN Absent
            ELSE IF ToNumber(v) # NaN THEN ToNumber(v) ELSE Absent
      [] f.type \in {"switch", "checkbox", "boolean"} ->
            Bool(v \in {Bool(TRUE), Str(<<"t","r","u","e">>), Num(1), Str(<<"1">>)})
      [] f.type = "date" ->
            IF Falsy(v) THEN Absent
            ELSE IF v.t = "date"
                 THEN IF v.valid THEN Str(v.iso) ELSE Throw
                 ELSE Str(ToStr(v))
      [] f.type = "multichoice" ->
            LET arr == IF v.t = "arr" THEN v.v
                       ELSE IF ~IsNullish(v) /\ v # Str(<<>>) THEN <<v>> ELSE <<>>
            IN Arr(UniqueSeq([i \in 1..Len(arr) |-> Str(ToStr(arr[i]))], <<>>))
      [] f.type = "select" ->
            IF IsNullish(v) THEN Absent ELSE Str(ToStr(v))
      [] f.type = "address" ->
            IF Truthy(v) /\ IsObjectType(v) THEN SpreadObject(v)
            ELSE IF ~IsNullish(v) /\ v # Str(<<>>)
                 THEN Obj(<<Prop("formatted", Str(ToStr(v)))>>)
                 ELSE Absent
      [] OTHER ->
            IF ~IsNullish(v) /\ v # Str(<<>>) THEN v ELSE Absent

\* The keys copied from the raw bag by the trailing loop
\* (rules-core.js:676-679): every key the typed pass left without an entry.
PassThroughKeys(typed, bag) == DOMAIN bag \ DOMAIN typed

\* sanitizeValues(schema, vals): the sanitized bag, or Throw.
SanitizeValues(fields, bag) ==
    LET ids   == FieldIds(fields)
        fld(k) == fields[CHOOSE i \in 1..Len(fields) :
                            /\ fields[i].id = k
                            /\ \A j \in (i + 1)..Len(fields) : fields[j].id # k]
        entry(k) == SanitizeField(fld(k), BagGet(bag, k))
        typedKeys == {k \in ids : entry(k) # Absent}
        typed == [k \in typedKeys |-> entry(k)]
        passed == PassThroughKeys(typed, bag)
    IN IF \E k \in ids : entry(k) = Throw THEN Throw
       ELSE [k \in typedKeys \cup passed |->
                IF k \in typedKeys THEN typed[k] ELSE bag[k]]

(***************************************************************************)
(* Rule matching and the two evaluation passes (rules-core.js:686-737,     *)
(* 951-1182)                                                               *)
(*                                                                         *)
(* A rule is a record of JS values with every key the code reads (Undef    *)
(* when the key is absent); targets and conditions are Arr(...) or Undef.  *)
(***************************************************************************)

EmptyRule ==
    [t |-> "rule", action |-> Undef, fieldId |-> Undef, field |-> Undef,
     whenField |-> Undef, op |-> Undef, operator |-> Undef, values |-> Undef,
     value |-> Undef, expected |-> Undef, targets |-> Undef, conditions |-> Undef,
     hideMode |-> Undef, whenOptionRef |-> Undef, whenOptionId |-> Undef]

EmptyCond ==
    [t |-> "cond", fieldId |-> Undef, leftFieldId |-> Undef, rightFieldId |-> Undef,
     op |-> Undef, operator |-> Undef, values |-> Undef, value |-> Undef,
     expected |-> Undef]

\* a || b
OrElse(a, b) == IF Truthy(a) THEN a ELSE b

S_equals    == <<"e","q","u","a","l","s">>
S_notEquals == <<"n","o","t","E","q","u","a","l","s">>
S_anyOf     == <<"a","n","y","O","f">>
S_allOf     == <<"a","l","l","O","f">>
S_contains  == <<"c","o","n","t","a","i","n","s">>
S_isEmpty   == <<"i","s","E","m","p","t","y">>
S_isNotEmpty == <<"i","s","N","o","t","E","m","p","t","y">>
S_gt  == <<"g","t">>
S_lt  == <<"l","t">>
S_gte == <<"g","t","e">>
S_lte == <<"l","t","e">>
S_true  == <<"t","r","u","e">>
S_false == <<"f","a","l","s","e">>
S_SHOW == <<"S","H","O","W">>
S_HIDE == <<"H","I","D","E">>
S_hide == <<"h","i","d","e">>
S_disable == <<"d","i","s","a","b","l","e">>

\* expected as a list of strings (rules-core.js:705, 711)
ExpectedStrings(expected) ==
    IF expected.t = "arr"
    THEN [i \in 1..Len(expected.v) |-> ToStr(expected.v[i])]
    ELSE <<ToStr(expected)>>

SeqHas(seq, x) == \E i \in 1..Len(seq) : seq[i] = x

\* na OP ne for the numeric operators (rules-core.js:730-733)
NumericCompare(o, na, ne) ==
    CASE o = S_gt  -> na > ne
      [] o = S_lt  -> na < ne
      [] o = S_gte -> na >= ne
      [] OTHER     -> na <= ne

\* A comparison that matches whatever the operands are
RuleMatchesAlways(opIn, expected, actual, fieldType) == TRUE

\* ruleMatchesValue(op, expected, actual, fieldType) ; fieldType is the
\* lower-cased type name
RuleMatchesValue(opIn, expected, actual, fieldType) ==
    LET o == ToStr(OrElse(opIn, Str(S_equals))) IN
    CASE o = S_isEmpty ->
            IF actual.t = "arr" THEN Len(actual.v) = 0
            ELSE IsNullish(actual) \/ actual = Str(<<>>)
      [] o = S_isNotEmpty ->
            IF actual.t = "arr" THEN Len(actual.v) > 0
            ELSE ~(IsNullish(actual) \/ actual = Str(<<>>))
      [] o = S_equals    -> ToStr(actual) = ToStr(expected)
      [] o = S_notEquals -> ToStr(actual) # ToStr(expected)
      [] o = S_anyOf ->
            LET arr == ExpectedStrings(expected) IN
            IF actual.t = "arr"
            THEN \E i \in 1..Len(actual.v) : SeqHas(arr, ToStr(actual.v[i]))
            ELSE SeqHas(arr, ToStr(actual))
      [] o = S_allOf ->
            LET arr == ExpectedStrings(expected) IN
            /\ actual.t = "arr"
            /\ \A i \in 1..Len(arr) :
                  \E j \in 1..Len(actual.v) : ToStr(actual.v[j]) = arr[i]
      [] o = S_contains /\ fieldType = "text" ->
            Includes(ToLower(ToStr(Coalesce(actual, Str(<<>>)))),
                     ToLower(ToStr(Coalesce(expected, Str(<<>>)))))
      [] o \in {S_gt, S_lt, S_gte, S_lte} ->
            LET na == ToNumber(actual)
                ne == ToNumber(IF expected.t = "arr"
                               THEN (IF Len(expected.v) > 0 THEN expected.v[1] ELSE Undef)
                               ELSE expected)
            IN na # NaN /\ ne # NaN /\ NumericCompare(o, na.v, ne.v)
      [] OTHER -> FALSE

\* The field of the schema with this id (Array.prototype.find), or Undef
FindField(fields, id) == FindFirst(fields, LAMBDA f : f.id = id)

\* cleanVals[fid]
GetVal(clean, fid) == BagGet(clean, fid)

\* "selected?" of an option reference against the parent's sanitized
\* value (rules-core.js:969-990)
OptionSelected(ft, av, parsed) ==
    LET wantVal  == IF ~IsNullish(parsed.optionValue) THEN Str(ToStr(parsed.optionValue)) ELSE Null
        wantSlug == IF ~IsNullish(parsed.optionSlug) THEN Str(ToStr(parsed.optionSlug)) ELSE Null
    IN IF ft = "multichoice"
       THEN LET arr == IF av.t = "arr" THEN [i \in 1..Len(av.v) |-> ToStr(av.v[i])]
                       ELSE IF ~IsNullish(av) /\ av # Str(<<>>) THEN <<ToStr(av)>>
                       ELSE <<>>
                byValue == wantVal # Null /\ SeqHas(arr, wantVal.v)
            IN \/ byValue
               \/ /\ Truthy(wantSlug)
                  /\ \E i \in 1..Len(arr) : Slug(arr[i]) = Slug(wantSlug.v)
       ELSE LET sv == IF IsNullish(av) THEN <<>> ELSE ToStr(av)
                byValue == wantVal # Null /\ sv = wantVal.v
            IN \/ byValue
               \/ (Truthy(wantSlug) /\ Slug(sv) = Slug(wantSlug.v))

\* The field's declared type, lower-cased types being the only ones drawn.
TypeOf(fld) == IF fld = Undef THEN "" ELSE fld.type

\* The option branch of resolveRefActualAndType (rules-core.js:963-991).
OptionActual(fields, clean, baseId, parsed) ==
    [actual |-> IF OptionSelected(TypeOf(FindField(fields, baseId)),
                                  GetVal(clean, baseId), parsed)
                THEN Str(S_true) ELSE Str(S_false),
     type   |-> "boolean"]

\* The plain-field branch (rules-core.js:994-997).
PlainActual(fields, clean, baseId) ==
    [actual |-> GetVal(clean, baseId), type |-> TypeOf(FindField(fields, baseId))]

\* resolveRefActualAndType with the parsed descriptor at hand.
ResolveParsed(fields, clean, r, parsed) ==
    IF parsed # Null /\ parsed.kind = "option"
    THEN OptionActual(fields, clean,
                      IF parsed.fieldId # <<>> THEN parsed.fieldId
                      ELSE Split(ToStr(Coalesce(r, Str(<<>>))), OPT)[1],
                      parsed)
    ELSE PlainActual(fields, clean, ToStr(Coalesce(r, Str(<<>>))))

\* resolveRefActualAndType(ref) : [actual, type]
ResolveRefActualAndType(fields, clean, r) ==
    ResolveParsed(fields, clean, r, ParseOptionFieldRef(fields, r))

\* Shape test of an ISO calendar day "YYYY-MM-DD"
IsIsoDay(s) ==
    /\ Len(s) = 10
    /\ s[5] = "-" /\ s[8] = "-"
    /\ \A i \in {1, 2, 3, 4, 6, 7, 9, 10} : s[i] \in Digits

\* toDay(s) (rules-core.js:1020-1025): the calendar day as a number that
\* orders days as Date.UTC does, NaN for a falsy or unparsable value.  The
\* date strings drawn as inputs are ISO days or text Date cannot parse.
ToDay(v) ==
    IF Falsy(v) THEN NaN
    ELSE IF v.t = "date" THEN (IF v.valid THEN Num(
              (ParseDigits(SubSeq(v.iso, 1, 4)) * 12 + ParseDigits(SubSeq(v.iso, 6, 7))) * 31
              + ParseDigits(SubSeq(v.iso, 9, 10))) ELSE NaN)
    ELSE LET s == ToStr(v) IN
         IF IsIsoDay(s)
         THEN Num((ParseDigits(SubSeq(s, 1, 4)) * 12 + ParseDigits(SubSeq(s, 6, 7))) * 31
                  + ParseDigits(SubSeq(s, 9, 10)))
         ELSE NaN

\* The date branch of the base match (rules-core.js:1018-1034)
DateMatch(opv, exp, actual) ==
    LET expStr == IF exp.t = "arr"
                  THEN ToStr(Coalesce(IF Len(exp.v) > 0 THEN exp.v[1] ELSE Undef, Str(<<>>)))
                  ELSE ToStr(Coalesce(exp, Str(<<>>)))
        a == ToDay(actual)
        b == ToDay(Str(expStr))
    IN /\ a # NaN /\ b # NaN
       /\ CASE opv = Str(S_equals) -> a.v = b.v
            [] opv = Str(S_gt)     -> a.v > b.v
            [] opv = Str(S_lt)     -> a.v < b.v
            [] opv = Str(S_gte)    -> a.v >= b.v
            [] opv = Str(S_lte)    -> a.v <= b.v
            [] OTHER               -> FALSE

\* ruleMatchesValue(cop, cexp, cav, ct) of one condition (rules-core.js:1044-1047)
ConditionMatch(c, at) ==
    RuleMatchesValue(OrElse(c.op, OrElse(c.operator, Str(S_equals))),
                     Coalesce(c.values, Coalesce(c.value, c.expected)),
                     at.actual, at.type)

\* (rules-core.js:1042-1047), cid being the condition's field reference
ConditionOn(fields, clean, c, cid) ==
    /\ Truthy(cid)
    /\ ConditionMatch(c, ResolveRefActualAndType(fields, clean, cid))

\* One AND-condition (rules-core.js:1041-1049)
ConditionHolds(fields, clean, c) ==
    ConditionOn(fields, clean, c, Coalesce(c.fieldId, Coalesce(c.leftFieldId, c.rightFieldId)))

\* r.fieldId || r.field || r.whenField
RuleFieldRef(r) == OrElse(r.fieldId, OrElse(r.field, r.whenField))

\* r.values ?? r.value ?? r.expected
RuleExpected(r) == Coalesce(r.values, Coalesce(r.value, r.expected))

\* The type dispatch of the base match (rules-core.js:1018-1037)
BaseMatchAt(r, opv, at) ==
    IF at.type = "date"
    THEN DateMatch(opv, RuleExpected(r), at.actual)
    ELSE RuleMatchesValue(opv, RuleExpected(r), at.actual, at.type)

\* Base match (rules-core.js:1015-1037; the field pass repeats it at
\* 1130-1153) for a rule with a truthy field reference
BaseMatch(fields, clean, r) ==
    BaseMatchAt(r, OrElse(r.op, OrElse(r.operator, Str(S_equals))),
                ResolveRefActualAndType(fields, clean, RuleFieldRef(r)))

\* `match` after the conditions loop (rules-core.js:1015-1053; the field
\* pass repeats it at 1130-1169)
RuleMatches(fields, clean, r) ==
    /\ BaseMatch(fields, clean, r)
    /\ (r.conditions.t = "arr" =>
          \A i \in 1..Len(r.conditions.v) : ConditionHolds(fields, clean, r.conditions.v[i]))

\* "SHOW", "HIDE" or "" (rules-core.js:1004-1006)
RuleAction(r) ==
    LET a == ToUpper(ToStr(OrElse(r.action, Str(<<>>)))) IN
    IF a = S_SHOW THEN "SHOW" ELSE IF a = S_HIDE THEN "HIDE" ELSE ""

\* Array.isArray(r.targets) ? r.targets : []
RuleTargets(r) == IF r.targets.t = "arr" THEN r.targets.v ELSE <<>>

\* Whether the rule takes part in the pass at all and matches
RuleFires(fields, clean, r) ==
    /\ Truthy(r)
    /\ RuleAction(r) # ""
    /\ Truthy(RuleFieldRef(r))
    /\ RuleMatches(fields, clean, r)

MapPut(m, k, v) == [x \in DOMAIN m \cup {k} |-> IF x = k THEN v ELSE m[x]]

EmptyMap == [x \in {} |-> "SHOW"]

\* Mutant of WriteVisibility: HIDE is written whatever the entry holds.
WriteVisibilityNoGuard(m, k, action, effect) ==
    IF action = "SHOW" THEN MapPut(m, k, "SHOW") ELSE MapPut(m, k, effect)

\* The precedence write (rules-core.js:1058-1060, 1175-1177)
WriteVisibility(m, k, action, effect) ==
    IF action = "SHOW" THEN MapPut(m, k, "SHOW")
    ELSE IF action = "HIDE" /\ ~(k \in DOMAIN m /\ m[k] = "SHOW") THEN MapPut(m, k, effect)
    ELSE m

\* One target of the heading pass (rules-core.js:1056-1060); out[idx] : the
\* property key is String(idx)
WriteHeadingTarget(m, idx, action) ==
    IF idx = NaN THEN m ELSE WriteVisibility(m, ToStr(idx), action, "HIDE")

\* The targets loop of the heading pass (rules-core.js:1055-1061)
RECURSIVE WriteHeadingTargets(_, _, _, _)
WriteHeadingTargets(m, targets, action, resolver) ==
    IF targets = <<>> THEN m
    ELSE WriteHeadingTargets(
            WriteHeadingTarget(m, ParseTargetIdx(Head(targets), resolver), action),
            Tail(targets), action, resolver)

\* One iteration of the rule loop of evaluateRulesToVisibility
HeadingRuleStep(fields, clean, resolver, m, r) ==
    IF RuleFires(fields, clean, r)
    THEN WriteHeadingTargets(m, RuleTargets(r), RuleAction(r), resolver)
    ELSE m

\* effect (rules-core.js:1126)
HideEffect(r) ==
    IF ToLower(ToStr(OrElse(r.hideMode, Str(S_hide)))) = S_disable THEN "DISABLE" ELSE "HIDE"

\* String(tTarget?.id ?? tTarget?.fieldId ?? tTarget?.key ?? '')
FieldTargetKey(tg) ==
    IF tg.t = "tgt"
    THEN ToStr(Coalesce(tg.id, Coalesce(tg.fieldId, Coalesce(tg.key, Str(<<>>)))))
    ELSE <<>>

\* One target of the field pass (rules-core.js:1173-1177)
WriteFieldTarget(m, id, action, effect) ==
    IF id = <<>> THEN m ELSE WriteVisibility(m, id, action, effect)

\* The targets loop of the field pass (rules-core.js:1171-1178)
RECURSIVE WriteFieldTargets(_, _, _, _)
WriteFieldTargets(m, targets, action, effect) ==
    IF targets = <<>> THEN m
    ELSE WriteFieldTargets(
            WriteFieldTarget(m, FieldTargetKey(Head(targets)), action, effect),
            Tail(targets), action, effect)

\* One iteration of the rule loop of evaluateFieldRulesToVisibility
FieldRuleStep(fields, clean, m, r) ==
    IF RuleFires(fields, clean, r)
    THEN WriteFieldTargets(m, RuleTargets(r), RuleAction(r), HideEffect(r))
    ELSE m

RECURSIVE FoldHeadingRules(_, _, _, _, _)
FoldHeadingRules(fields, clean, resolver, m, rs) ==
    IF rs = <<>> THEN m
    ELSE FoldHeadingRules(fields, clean, resolver,
                          HeadingRuleStep(fields, clean, resolver, m, Head(rs)), Tail(rs))

RECURSIVE FoldFieldRules(_, _, _, _)
FoldFieldRules(fields, clean, m, rs) ==
    IF rs = <<>> THEN m
    ELSE FoldFieldRules(fields, clean, FieldRuleStep(fields, clean, m, Head(rs)), Tail(rs))

\* evaluateRulesToVisibility(schema, values, rules, headingResolver)
EvaluateRulesToVisibility(fields, bag, rs, resolver) ==
    IF rs = <<>> THEN EmptyMap
    ELSE IF SanitizeValues(fields, bag) = Throw THEN Throw
    ELSE FoldHeadingRules(fields, SanitizeValues(fields, bag), resolver, EmptyMap, rs)

\* evaluateFieldRulesToVisibility(schema, values, rules)
EvaluateFieldRulesToVisibility(fields, bag, rs) ==
    IF rs = <<>> THEN EmptyMap
    ELSE IF SanitizeValues(fields, bag) = Throw THEN Throw
    ELSE FoldFieldRules(fields, SanitizeValues(fields, bag), EmptyMap, rs)

(***************************************************************************)
(* Normalization against the schema (rules-core.js:334-392, 741-938)       *)
(*                                                                         *)
(* A normalizer folds the raw rule list into the list of emitted rules;    *)
(* one iteration of its loop yields the sequence of the rules it pushes    *)
(* (none or one).                                                          *)
(***************************************************************************)

\* __coerceRuleForMultichoiceOption(schema, rule, whenField), whenField a
\* resolved field
CoerceRuleForMultichoiceOption(rule, whenField) ==
    IF whenField.type \notin {"multichoice", "select"} THEN rule
    ELSE IF rule.values.t = "arr" THEN rule
    ELSE [rule EXCEPT !.values = Arr(<<rule.values>>)]

\* rule.conditions && rule.conditions[0] && (c.fieldId ?? c.leftFieldId)
FirstConditionRef(rule) ==
    IF rule.conditions.t = "arr" /\ Len(rule.conditions.v) > 0
       /\ rule.conditions.v[1] # Null
    THEN Coalesce(rule.conditions.v[1].fieldId, rule.conditions.v[1].leftFieldId)
    ELSE Undef

\* r.op / r.values after the rewrite (rules-core.js:365-379)
OptionRuleOp(r, parsed, t) ==
    IF ~IsNullish(parsed.optionValue)
    THEN IF t = "multichoice" THEN Str(S_anyOf)
         ELSE IF t = "select" THEN Str(S_equals)
         ELSE OrElse(r.op, Str(S_equals))
    ELSE OrElse(r.op, OrElse(r.operator, Str(S_equals)))

\* A rewrite that leaves the expected values as the rule had them
OptionRuleValuesKept(r, parsed) == r.values

OptionRuleValues(r, parsed) ==
    IF ~IsNullish(parsed.optionValue)
    THEN Arr(<<Str(ToStr(parsed.optionValue))>>)
    ELSE r.values

\* The rewritten copy (rules-core.js:354-381): the rule now tests the
\* parent field of the option.
RewriteOptionRule(rule, refStr, parsed, t) ==
    [rule EXCEPT
        !.whenOptionRef = IF Truthy(@) THEN @ ELSE Str(refStr),
        !.whenOptionId  = IF Truthy(@) THEN @ ELSE Str(parsed.id),
        !.fieldId       = Str(parsed.fieldId),
        !.field         = IF ~IsNullish(@) THEN Str(parsed.fieldId) ELSE @,
        !.whenField     = IF ~IsNullish(@) THEN Str(parsed.fieldId) ELSE @,
        !.op            = OptionRuleOp(rule, parsed, t),
        !.values        = OptionRuleValues(rule, parsed)]

\* (rules-core.js:345-381), the reference parsed
RewriteParsed(fields, rule, refStr, parsed) ==
    IF parsed = Null \/ parsed.kind # "option" \/ parsed.fieldId = <<>> THEN rule
    ELSE RewriteOptionRule(rule, refStr, parsed, TypeOf(FindField(fields, parsed.fieldId)))

\* (rules-core.js:343-381), ref the reference read off the rule
NormalizeWhenOptionRefOn(fields, rule, r) ==
    IF Falsy(r) \/ r.t # "str" THEN rule
    ELSE IF ~Includes(r.v, OPT) THEN rule
    ELSE RewriteParsed(fields, rule, r.v, ParseOptionFieldRef(fields, r))

\* __normalizeWhenOptionRefAgainstSchema(schema, rule), rule an object
NormalizeWhenOptionRefAgainstSchema(fields, rule) ==
    NormalizeWhenOptionRefOn(fields, rule,
        Coalesce(rule.fieldId, Coalesce(rule.field,
            Coalesce(rule.whenField, FirstConditionRef(rule)))))

\* raw.fieldId ?? raw.field ?? raw.whenField
TriggerRef(r) == Coalesce(r.fieldId, Coalesce(r.field, r.whenField))

\* The fallback to the resolved field's id when the reference left by
\* the rewrite does not resolve (rules-core.js:755-761, 808-814)
FixFieldRef(fields, r0, resolvedField) ==
    IF ResolveFieldRef(fields, TriggerRef(r0)) # Null THEN r0
    ELSE [r0 EXCEPT
            !.fieldId   = Str(resolvedField.id),
            !.field     = IF ~IsNullish(@) THEN Str(resolvedField.id) ELSE @,
            !.whenField = IF ~IsNullish(@) THEN Str(resolvedField.id) ELSE @]

\* c?.fieldId ?? c?.leftFieldId ?? c?.rightFieldId
ConditionRef(c) ==
    IF c = Null THEN Undef
    ELSE Coalesce(c.fieldId, Coalesce(c.leftFieldId, c.rightFieldId))

\* A normalizer that leaves the conditions as they came
FilterConditionsKeepAll(fields, r0) == r0

\* r0.conditions.filter(...) (rules-core.js:763-769, 816-821)
FilterConditions(fields, r0) ==
    IF r0.conditions.t # "arr" THEN r0
    ELSE [r0 EXCEPT !.conditions =
            Arr(SelectSeq(@.v, LAMBDA c : ResolveFieldRef(fields, ConditionRef(c)) # Null))]

\* The trigger half shared by both normalizers (rules-core.js:749-769,
\* 802-821): the copy of raw after coercion, option rewrite, reference
\* fallback and condition filter.
NormalizeTrigger(fields, raw, resolvedField) ==
    FilterConditions(fields,
        FixFieldRef(fields,
            NormalizeWhenOptionRefAgainstSchema(fields,
                CoerceRuleForMultichoiceOption(raw, resolvedField)),
            resolvedField))

\* headingIndex.normalizeTarget(t) || t
NormalizedOrSame(ix, tg, n) == IF n # Null THEN n ELSE tg

\* The targets of a heading rule (rules-core.js:771-785): kept as they are
\* without a baseline, mapped through the index with one; null entries go.
\* A rule whose targets are no array keeps what it has.
NormalizeHeadingTargets(ix, r0) ==
    IF r0.targets.t # "arr" THEN r0
    ELSE IF Len(ix.flat) = 0
    THEN [r0 EXCEPT !.targets = Arr(SelectSeq(@.v, LAMBDA tg : ~IsNullish(tg)))]
    ELSE [r0 EXCEPT !.targets =
            Arr(SelectSeq([i \in 1..Len(@.v) |->
                              NormalizedOrSame(ix, @.v[i], NormalizeTarget(ix, @.v[i]))],
                          LAMBDA tg : ~IsNullish(tg)))]

\* The rule pushed for raw, its trigger field resolved (rules-core.js:752-787)
HeadingRuleFor(fields, ix, raw, resolvedField) ==
    IF resolvedField = Null THEN <<>>
    ELSE <<NormalizeHeadingTargets(ix, NormalizeTrigger(fields, raw, resolvedField))>>

\* One iteration of the loop of normalizeHeadingsRulesForSchema
\* (rules-core.js:746-788): the rules it pushes.
NormalizeHeadingRule(fields, ix, raw) ==
    IF Falsy(raw) THEN <<>>
    ELSE HeadingRuleFor(fields, ix, raw, ResolveFieldRef(fields, TriggerRef(raw)))

RECURSIVE NormalizeHeadingRulesFrom(_, _, _)
NormalizeHeadingRulesFrom(fields, ix, rs) ==
    IF rs = <<>> THEN <<>>
    ELSE NormalizeHeadingRule(fields, ix, Head(rs))
            \o NormalizeHeadingRulesFrom(fields, ix, Tail(rs))

\* normalizeHeadingsRulesForSchema(schema, rulesIn, headingBaseline), the
\* baseline given as its flat array (empty when there is none)
NormalizeHeadingsRulesForSchema(fields, rs, flat) ==
    NormalizeHeadingRulesFrom(fields, BuildHeadingTargetIndex(flat), rs)

\* fieldIndex.get(id) of new Map(fields.map(f => [String(f.id), f])): the
\* last field of that id, or Undef
FieldIndexGet(fields, id) ==
    IF \E i \in 1..Len(fields) : fields[i].id = id
    THEN fields[CHOOSE i \in 1..Len(fields) :
                    /\ fields[i].id = id
                    /\ \A j \in (i + 1)..Len(fields) : fields[j].id # id]
    ELSE Undef

\* a || b for two catalog records
OrCat(a, b) == IF a # Undef THEN a ELSE b

\* The first of two push lists that pushed anything
FirstPushed(a, b) == IF a # <<>> THEN a ELSE b

\* The option target pushed for a catalog hit (rules-core.js:853-859, 884-890)
OptionTarget(cat, hit) ==
    [EmptyTarget EXCEPT
        !.id = Str(cat.id \o OPT \o hit.slug), !.fieldId = Str(cat.id),
        !.optionValue = Str(hit.value), !.optionLabel = Str(hit.label),
        !.label = Str(cat.label \o <<":", " ">> \o hit.label)]

\* The field target pushed for a field (rules-core.js:898, 904, 926-930)
PlainFieldTarget(f) ==
    [EmptyTarget EXCEPT
        !.id = Str(f.id), !.fieldId = Str(f.id),
        !.label = Str(IF f.label # <<>> THEN f.label ELSE f.id)]

HitTarget(cat, hit) == IF hit = Undef THEN <<>> ELSE <<OptionTarget(cat, hit)>>

\* Targets of the form id__opt__slug (rules-core.js:846-862)
CompositeTargetIn(cat, slug) ==
    IF cat = Undef \/ Len(cat.options) = 0 THEN <<>>
    ELSE HitTarget(cat, FindFirst(cat.options, LAMBDA o : o.slug = Slug(slug)))

CompositeTarget(oix, pf, s) ==
    CompositeTargetIn(OrCat(MapGet(oix, Split(s, OPT)[1]), pf), Split(s, OPT)[2])

\* for (const [, rec] of optionIndex.entries()) if slug(rec.label) === slug(fieldLike)
CatByLabel(oix, fieldLike) ==
    LET hits == {i \in 1..Len(oix) : Slug(oix[i].v.label) = Slug(fieldLike)} IN
    IF hits = {} THEN Undef
    ELSE oix[CHOOSE i \in hits : \A j \in hits : i <= j].v

\* Targets of the form "field: option" (rules-core.js:865-893)
LabelledTargetIn(cat, optLike) ==
    IF cat = Undef \/ Len(cat.options) = 0 THEN <<>>
    ELSE HitTarget(cat, FindFirst(cat.options,
                        LAMBDA o : Slug(o.label) = Slug(optLike) \/ Slug(o.value) = Slug(optLike)))

LabelledTargetOf(oix, pf, fieldLike, optLike) ==
    LabelledTargetIn(OrCat(MapGet(oix, fieldLike), OrCat(CatByLabel(oix, fieldLike), pf)),
                     optLike)

LabelledTarget(oix, pf, s) ==
    LabelledTargetOf(oix, pf, Trim(Split(s, COLON)[1]), Trim(Split(s, COLON)[2]))

\* A field named by id, else the first field whose label (or id) has the
\* slug of the text (rules-core.js:896-908)
NamedFieldTarget(fields, s) ==
    IF FieldIndexGet(fields, s) # Undef THEN <<PlainFieldTarget(FieldIndexGet(fields, s))>>
    ELSE LET hits == {i \in 1..Len(fields) :
                        Slug(IF fields[i].label # <<>> THEN fields[i].label
                             ELSE fields[i].id) = Slug(s)}
         IN IF hits = {} THEN <<>>
            ELSE <<PlainFieldTarget(fields[CHOOSE i \in hits : \A j \in hits : i <= j])>>

\* A string target, trimmed (rules-core.js:843-909)
StringTarget(fields, oix, pf, s) ==
    FirstPushed(IF Includes(s, OPT) THEN CompositeTarget(oix, pf, s) ELSE <<>>,
        FirstPushed(IF Includes(s, COLON) THEN LabelledTarget(oix, pf, s) ELSE <<>>,
                    NamedFieldTarget(fields, s)))

\* optLab || optVal
OptionText(optLab, optVal) == IF optLab # <<>> THEN optLab ELSE optVal

\* fieldIndex.get(fieldId)?.label || fieldId
ParentLabel(f, fieldId) == IF f # Undef /\ f.label # <<>> THEN f.label ELSE fieldId

\* (rules-core.js:827-840), the three strings read off the target
OptionObjectTargetOf(fields, tg, fieldId, optVal, optLab) ==
    [EmptyTarget EXCEPT
        !.id = Str(fieldId \o OPT \o Slug(OptionText(optLab, optVal))),
        !.fieldId = Str(fieldId),
        !.optionValue = Str(optVal),
        !.optionLabel = Str(optLab),
        !.label = IF Truthy(tg.label) THEN tg.label
                  ELSE Str(ParentLabel(FieldIndexGet(fields, fieldId), fieldId)
                           \o <<":", " ">> \o OptionText(optLab, optVal))]

\* An object target carrying optionValue or optionLabel (rules-core.js:826-841)
OptionObjectTarget(fields, resolvedField, tg) ==
    OptionObjectTargetOf(fields, tg,
        ToStr(Coalesce(tg.id, Str(resolvedField.id))),
        ToStr(Coalesce(tg.optionValue, Str(<<>>))),
        ToStr(Coalesce(tg.optionLabel, Str(ToStr(Coalesce(tg.optionValue, Str(<<>>)))))))

\* (rules-core.js:912-921), id the field id read off the target
ObjectTargetOf(tg, f, id) ==
    IF f = Undef THEN <<>>
    ELSE <<[EmptyTarget EXCEPT
              !.id = Str(id), !.fieldId = Str(id),
              !.label = IF Truthy(tg.label) THEN tg.label
                        ELSE Str(IF f.label # <<>> THEN f.label ELSE id)]>>

\* Any other object target (rules-core.js:912-921)
ObjectTarget(fields, tg) ==
    ObjectTargetOf(tg,
        FieldIndexGet(fields, ToStr(Coalesce(tg.id, Coalesce(tg.fieldId, Str(<<>>))))),
        ToStr(Coalesce(tg.id, Coalesce(tg.fieldId, Str(<<>>)))))

\* One iteration of `for (const t of tIn)` (rules-core.js:826-922): what it
\* pushes onto normTargets.
NormalizeFieldTarget(fields, oix, resolvedField, tg) ==
    IF tg.t = "tgt" /\ (~IsNullish(tg.optionValue) \/ ~IsNullish(tg.optionLabel))
    THEN <<OptionObjectTarget(fields, resolvedField, tg)>>
    ELSE IF tg.t = "str"
    THEN StringTarget(fields, oix, MapGet(oix, resolvedField.id), Trim(tg.v))
    ELSE IF tg.t = "tgt" THEN ObjectTarget(fields, tg)
    ELSE <<>>

RECURSIVE NormalizeFieldTargetsFrom(_, _, _, _)
NormalizeFieldTargetsFrom(fields, oix, resolvedField, tIn) ==
    IF tIn = <<>> THEN <<>>
    ELSE NormalizeFieldTarget(fields, oix, resolvedField, Head(tIn))
            \o NormalizeFieldTargetsFrom(fields, oix, resolvedField, Tail(tIn))

\* Mutant of TargetsOrFallback: no fallback target.
TargetsNoFallback(normTargets, resolvedField) == normTargets

\* if (!normTargets.length) normTargets.push({the trigger field})
\* (rules-core.js:925-931)
TargetsOrFallback(normTargets, resolvedField) ==
    IF normTargets = <<>> THEN <<PlainFieldTarget(resolvedField)>> ELSE normTargets

\* r0.targets = normTargets (rules-core.js:823-933)
NormalizeFieldTargets(fields, r0, resolvedField) ==
    [r0 EXCEPT !.targets =
        Arr(TargetsOrFallback(
                NormalizeFieldTargetsFrom(fields, BuildOptionIndex(fields), resolvedField,
                                          RuleTargets(r0)),
                resolvedField))]

\* The rule pushed for raw, its trigger field resolved (rules-core.js:802-934)
FieldRuleFor(fields, raw, resolvedField) ==
    IF resolvedField = Null THEN <<>>
    ELSE <<NormalizeFieldTargets(fields, NormalizeTrigger(fields, raw, resolvedField),
                                 resolvedField)>>

\* One iteration of the loop of normalizeFieldRulesForSchema
\* (rules-core.js:799-934): the rules it pushes.
NormalizeFieldRule(fields, raw) ==
    IF Falsy(raw) THEN <<>>
    ELSE FieldRuleFor(fields, raw, ResolveFieldRef(fields, TriggerRef(raw)))

RECURSIVE NormalizeFieldRulesForSchema(_, _)
NormalizeFieldRulesForSchema(fields, rs) ==
    IF rs = <<>> THEN <<>>
    ELSE NormalizeFieldRule(fields, Head(rs)) \o NormalizeFieldRulesForSchema(fields, Tail(rs))

(***************************************************************************)
(* Specification of the sanitizer: a schema, then one raw bag sanitized    *)
(***************************************************************************)

S_abc  == <<"a","b","c">>
S_12   == <<"1","2">>
S_day5 == <<"2","0","2","4","-","0","1","-","0","5">>
S_day7 == <<"2","0","2","4","-","0","1","-","0","7">>

F_sw == Field(<<"s","w">>, <<"O","n">>, "switch", <<>>, <<>>)
F_dd == Field(<<"d","d">>, <<"A","g","e">>, "datediff", <<>>, <<>>)
F_ad == Field(<<"a","d">>, <<"A","d","r">>, "address", <<>>, <<>>)
F_tx == Field(<<"t","x">>, <<"T","x","t">>, "text", <<>>, <<>>)

\* One field of every type the sanitizer distinguishes.
SanitizeFields == <<F_top, F_b, F_m, F_a, F_tx, F_sw, F_dd, F_ad>>

\* Most fields in a schema handed to the sanitizer alone.
MaxSanitizeFields == 2

\* Schemas: up to n fields of a sequence of fields, in that sequence's order.
SubSchemas(fieldSeq, n) ==
    {fs \in SchemasOf({fieldSeq[i] : i \in 1..Len(fieldSeq)}, n) :
        \A i, j \in 1..Len(fs) :
            i < j => \E a, b \in 1..Len(fieldSeq) :
                        a < b /\ fieldSeq[a] = fs[i] /\ fieldSeq[b] = fs[j]}

\* Raw values of every JS type a form can store.
RawValues ==
    { Null, Str(<<>>), Str(S_abc), Str(S_12), Num(5), Bool(TRUE),
      Arr(<<Str(S_N), Num(5), Str(S_N)>>), DateOf(S_day5), InvalidDate,
      Obj(<<Prop("days", Str(S_12)), Prop("formatted", Str(S_abc))>>) }

\* All bags over a set of keys: every key absent or holding a raw value.
BagsOver(keys) == UNION {[K -> RawValues] : K \in SUBSET keys}

InitSanitize ==
    /\ op = "init"
    /\ schema \in SubSchemas(SanitizeFields, MaxSanitizeFields)
    /\ vals = None /\ rules = None /\ base = None /\ ref = None
    /\ pos = 0 /\ out = None /\ out2 = None

\* out = sanitizeValues(schema, vals)
Sanitize ==
    /\ op = "init"
    /\ \E bag \in BagsOver(FieldIds(schema) \cup {S_zz}) :
          /\ vals' = bag
          /\ out' = SanitizeValues(schema, bag)
    /\ op' = "sanitizeValues"
    /\ UNCHANGED <<schema, rules, base, ref, pos, out2>>

NextSanitize == Sanitize

SpecSanitize == InitSanitize /\ [][NextSanitize]_vars

\* The raw value is the empty string, null, absent or not numeric.
NotNumericRaw(v) == v = Str(<<>>) \/ IsNullish(v) \/ ToNumber(v) = NaN

\* C5: sanitizeValues number rule -- for every field declared type number
\* the sanitized bag has no entry when the raw value is the empty string,
\* null, absent or not numeric, and otherwise holds a number (not NaN);
\* only keys that are no field ids of the schema are passed through from
\* the raw bag unchanged.
C5_NumberRule ==
    (op = "sanitizeValues" /\ out # Throw) =>
        /\ \A i \in 1..Len(schema) :
              schema[i].type = "number" =>
                 IF NotNumericRaw(BagGet(vals, schema[i].id))
                 THEN schema[i].id \notin DOMAIN out
                 ELSE /\ schema[i].id \in DOMAIN out
                      /\ out[schema[i].id].t = "num"
        /\ \A k \in DOMAIN vals \ FieldIds(schema) :
              k \in DOMAIN out /\ out[k] = vals[k]

(***************************************************************************)
(* Specification of the evaluation passes: inputs are drawn, then either   *)
(* pass folds the rule list one rule at a time into `out`.                 *)
(***************************************************************************)

\* The resolver handed to the heading pass: built from the baseline, or
\* none at all.
Resolver == IF base = None THEN None ELSE BuildHeadingTargetIndex(base)

\* const out = Object.create(null); early return for an empty rule list;
\* cleanVals = sanitizeValues(...)   (rules-core.js:952-955)
BeginHeadingPass ==
    /\ op = "init"
    /\ op' = "evaluateRulesToVisibility"
    /\ pos' = 0
    /\ out' = IF rules # <<>> /\ SanitizeValues(schema, vals) = Throw
              THEN Throw ELSE EmptyMap
    /\ UNCHANGED <<schema, vals, rules, base, ref, out2>>

\* One iteration of `for (const r of rules)` (rules-core.js:1001-1062)
HeadingRule ==
    /\ op = "evaluateRulesToVisibility"
    /\ out # Throw
    /\ pos < Len(rules)
    /\ pos' = pos + 1
    /\ out' = HeadingRuleStep(schema, SanitizeValues(schema, vals), Resolver,
                              out, rules[pos + 1])
    /\ UNCHANGED <<op, schema, vals, rules, base, ref, out2>>

\* (rules-core.js:1070-1073)
BeginFieldPass ==
    /\ op = "init"
    /\ op' = "evaluateFieldRulesToVisibility"
    /\ pos' = 0
    /\ out' = IF rules # <<>> /\ SanitizeValues(schema, vals) = Throw
              THEN Throw ELSE EmptyMap
    /\ UNCHANGED <<schema, vals, rules, base, ref, out2>>

\* One iteration of `for (const r of rules)` (rules-core.js:1114-1179)
FieldRule ==
    /\ op = "evaluateFieldRulesToVisibility"
    /\ out # Throw
    /\ pos < Len(rules)
    /\ pos' = pos + 1
    /\ out' = FieldRuleStep(schema, SanitizeValues(schema, vals), out, rules[pos + 1])
    /\ UNCHANGED <<op, schema, vals, rules, base, ref, out2>>

NextEval == BeginHeadingPass \/ HeadingRule \/ BeginFieldPass \/ FieldRule

\* The pass has returned its map.
HeadingPassDone == op = "evaluateRulesToVisibility" /\ out # Throw /\ pos = Len(rules)
FieldPassDone   == op = "evaluateFieldRulesToVisibility" /\ out # Throw /\ pos = Len(rules)

S_m_opt_north == S_m \o OPT \o <<"n","o","r","t","h">>
S_a_opt_red   == S_a \o OPT \o S_red
S_7Scope      == <<"7","|","S","c","o","p","e">>

EvalSchema == <<F_a, F_m, F_top, F_b>>

\* Targets carrying a heading idx and a field/option id
T_5 == [EmptyTarget EXCEPT !.idx = Num(5), !.id = Str(S_m)]
T_7 == [EmptyTarget EXCEPT !.idx = Num(7), !.id = Str(S_m_opt_north)]

\* SHOW (mixed case) when a = r
R_showA ==
    [EmptyRule EXCEPT !.action = Str(<<"S","h","o","w">>), !.fieldId = Str(S_a),
        !.op = Str(S_equals), !.values = Arr(<<Str(S_r)>>), !.targets = Arr(<<T_5>>)]
\* HIDE when m has N
R_hideM ==
    [EmptyRule EXCEPT !.action = Str(S_HIDE), !.fieldId = Str(S_m),
        !.op = Str(S_anyOf), !.values = Arr(<<Str(S_N)>>), !.targets = Arr(<<T_5, T_7>>)]
\* HIDE with hideMode disable when m has N
R_disableM ==
    [EmptyRule EXCEPT !.action = Str(S_HIDE), !.fieldId = Str(S_m),
        !.op = Str(S_anyOf), !.values = Arr(<<Str(S_N)>>), !.targets = Arr(<<T_5>>),
        !.hideMode = Str(S_disable)]
\* HIDE when a = r and top > 3
R_hideCond ==
    [EmptyRule EXCEPT !.action = Str(S_HIDE), !.fieldId = Str(S_a),
        !.operator = Str(S_equals), !.value = Str(S_r),
        !.conditions = Arr(<<[EmptyCond EXCEPT !.fieldId = Str(S_top), !.op = Str(S_gt),
                                               !.values = Arr(<<Num(3)>>)]>>),
        !.targets = Arr(<<T_7>>)]
\* SHOW when option Red of a is selected; a primitive heading target
R_showOpt ==
    [EmptyRule EXCEPT !.action = Str(S_SHOW), !.whenField = Str(S_a_opt_red),
        !.values = Arr(<<Str(S_true)>>), !.targets = Arr(<<Str(S_7Scope), T_7>>)]
\* an action that is neither SHOW nor HIDE
R_other ==
    [EmptyRule EXCEPT !.action = Str(S_disable), !.fieldId = Str(S_a),
        !.op = Str(S_isNotEmpty), !.targets = Arr(<<T_5>>)]

EvalRulePool == {R_showA, R_hideM, R_disableM, R_hideCond, R_showOpt, R_other, Null}

\* Longest rule list handed to an evaluation pass.
MaxEvalRules == 3

Bag3(a, m, top) ==
    [k \in {S_a, S_m, S_top} |-> IF k = S_a THEN a ELSE IF k = S_m THEN m ELSE top]

EvalBags ==
    { Bag3(Str(S_r), Arr(<<Str(S_N)>>), Num(5)),
      Bag3(Str(S_r), Arr(<<Str(S_N)>>), Str(<<>>)),
      Bag3(Str(<<"g">>), Str(S_N), Str(S_12)) }

\* Rule lists of pairwise different rules
DistinctSeqsUpTo(S, n) ==
    {rs \in SeqsUpTo(S, n) : \A i, j \in 1..Len(rs) : i < j => rs[i] # rs[j]}

\* A baseline with sparse stable idx values
EvalBaseline ==
    <<Heading(Undef, Num(5), Str(<<"I","n","t","r","o">>), Undef),
      Heading(Undef, Num(7), Str(<<"S","c","o","p","e">>), Undef)>>

InitEval ==
    /\ op = "init"
    /\ schema = EvalSchema
    /\ vals \in EvalBags
    /\ rules \in DistinctSeqsUpTo(EvalRulePool, MaxEvalRules)
    /\ base \in {None, EvalBaseline}
    /\ ref = None /\ pos = 0 /\ out = None /\ out2 = None

SpecEval == InitEval /\ [][NextEval]_vars

\* rules permuted by p
Permuted(rs, p) == [i \in 1..Len(rs) |-> rs[p[i]]]

\* C1: heading pass order independence -- with schema, value bag and
\* heading resolver fixed, every permutation of the rule list yields the
\* same visibility map (same idx keys, same SHOW/HIDE value per key).
C1_HeadingOrderIndependent ==
    HeadingPassDone =>
        \A p \in Permutations(1..Len(rules)) :
            EvaluateRulesToVisibility(schema, vals, Permuted(rules, p), Resolver) = out

\* A finished heading pass in which a SHOW rule and a HIDE rule both fired
\* on the same idx, the HIDE rule last.
C1_Witness ==
    /\ HeadingPassDone
    /\ Len(rules) >= 2
    /\ rules[1] = R_showA /\ rules[Len(rules)] = R_hideM
    /\ RuleFires(schema, SanitizeValues(schema, vals), R_showA)
    /\ RuleFires(schema, SanitizeValues(schema, vals), R_hideM)
    /\ out = (<<"5">> :> "SHOW" @@ <<"7">> :> "HIDE")

\* C2: field pass order independence -- every permutation of the rule list
\* yields the same visibility map, also when several matching HIDE rules
\* address one target with different hideMode flags and no matching SHOW
\* rule addresses it.
C2_FieldOrderIndependent ==
    FieldPassDone =>
        \A p \in Permutations(1..Len(rules)) :
            EvaluateFieldRulesToVisibility(schema, vals, Permuted(rules, p)) = out

\* C3: SHOW never regresses -- in either pass, once the entry of a target
\* is SHOW after some rule it is SHOW after every later rule; HIDE or
\* DISABLE is written only over an entry that is not SHOW.
C3_ShowNeverRegresses ==
    [][(op \in {"evaluateRulesToVisibility", "evaluateFieldRulesToVisibility"}
        /\ out # Throw /\ op' = op)
       => \A k \in DOMAIN out :
             out[k] = "SHOW" => (k \in DOMAIN out' /\ out'[k] = "SHOW")]_vars

\* A matching HIDE rule has just been folded over a target whose entry was
\* SHOW, in the field pass.
C3_Witness ==
    /\ op = "evaluateFieldRulesToVisibility"
    /\ pos = 2
    /\ rules[1] = R_showA /\ rules[2] = R_disableM
    /\ RuleFires(schema, SanitizeValues(schema, vals), R_showA)
    /\ RuleFires(schema, SanitizeValues(schema, vals), R_disableM)
    /\ out = (S_m :> "SHOW")

(***************************************************************************)
(* Specification of the isEmpty operator: one rule with operator isEmpty   *)
(* and no conditions on a field of any type, folded by either pass.        *)
(***************************************************************************)

\* A rule with operator isEmpty on field fid, the operator under opKey.  Its
\* targets are an object (a field id for the field pass) and a primitive
\* "idx|label" (an idx for the heading pass with or without a resolver), so
\* that a match writes an entry in either pass.
R_isEmpty(fid, action, opKey) ==
    [EmptyRule EXCEPT !.action = Str(action), !.fieldId = Str(fid),
        !.op = IF opKey = "op" THEN Str(S_isEmpty) ELSE Undef,
        !.operator = IF opKey = "operator" THEN Str(S_isEmpty) ELSE Undef,
        !.targets = Arr(<<T_5, Str(S_7Scope)>>)]

\* Raw values of the trigger field, the empty array among them.
IsEmptyRawValues == RawValues \cup {Arr(<<>>)}

\* Most fields in a schema of this specification.
MaxIsEmptyFields == 1

InitIsEmpty ==
    /\ op = "init"
    /\ schema \in SubSchemas(SanitizeFields, MaxIsEmptyFields) \ {<<>>}
    /\ vals \in UNION {[K -> IsEmptyRawValues] : K \in SUBSET FieldIds(schema)}
    /\ \E i \in 1..Len(schema), a \in {S_SHOW, S_HIDE}, k \in {"op", "operator"} :
          rules = <<R_isEmpty(schema[i].id, a, k)>>
    /\ base \in {None, EvalBaseline}
    /\ ref = None /\ pos = 0 /\ out = None /\ out2 = None

SpecIsEmpty == InitIsEmpty /\ [][NextEval]_vars

\* null/absent, the empty string or an empty sequence
IsEmptyValue(v) == IsNullish(v) \/ v = Str(<<>>) \/ v = Arr(<<>>)

\* C6: operator isEmpty -- in either pass a rule with operator isEmpty and
\* no conditions matches (writes its target) if and only if the sanitized
\* value of its trigger field is null/absent, the empty string or an empty
\* sequence, whatever the declared type of the trigger field.
C6_IsEmptyMatches ==
    (HeadingPassDone \/ FieldPassDone)
    => (out # EmptyMap
          <=> IsEmptyValue(BagGet(SanitizeValues(schema, vals), rules[1].fieldId.v)))

(***************************************************************************)
(* Specification of the normalizers: a raw rule list is drawn, then either *)
(* normalizer folds it one raw rule at a time into the emitted list `out`. *)
(***************************************************************************)

NormSchema == <<F_a, F_m, F_top>>

\* Raw targets: resolvable and not, of every form the loop distinguishes
TG_zz  == [EmptyTarget EXCEPT !.id = Str(S_zz)]
TG_top == [EmptyTarget EXCEPT !.fieldId = Str(S_top)]
TG_opt == [EmptyTarget EXCEPT !.optionValue = Str(S_r)]

\* trigger by exact id; conditions, one of them on an unknown field
N_byId ==
    [EmptyRule EXCEPT !.action = Str(S_SHOW), !.fieldId = Str(S_a),
        !.op = Str(S_equals), !.values = Arr(<<Str(S_r)>>),
        !.conditions = Arr(<<[EmptyCond EXCEPT !.fieldId = Str(S_top), !.op = Str(S_gt),
                                               !.values = Arr(<<Num(3)>>)],
                             [EmptyCond EXCEPT !.leftFieldId = Str(S_zz)]>>),
        !.targets = Arr(<<Str(S_m), Str(S_Top_Red), TG_opt, T_5>>)]
\* trigger by field label; no target resolves against the schema
N_byLabel ==
    [EmptyRule EXCEPT !.action = Str(S_HIDE), !.fieldId = Str(S_Top),
        !.op = Str(S_isNotEmpty), !.targets = Arr(<<TG_zz, Str(S_zz), Null>>)]
\* trigger under `field`; a bare value; no targets at all
N_byField ==
    [EmptyRule EXCEPT !.action = Str(S_HIDE), !.field = Str(S_m),
        !.op = Str(S_anyOf), !.values = Str(S_N)]
\* trigger "label: option" under whenField; an empty target list
N_labelOption ==
    [EmptyRule EXCEPT !.action = Str(S_SHOW), !.whenField = Str(S_Top_Red),
        !.targets = Arr(<<>>)]
\* trigger by the label of an option; only a null target
N_optionLabel ==
    [EmptyRule EXCEPT !.action = Str(S_SHOW), !.fieldId = Str(S_Red),
        !.values = Arr(<<Str(S_r)>>), !.targets = Arr(<<Null>>)]
\* trigger by option composite; composite and plain object targets
N_composite ==
    [EmptyRule EXCEPT !.action = Str(S_HIDE), !.fieldId = Str(S_a_opt_red),
        !.hideMode = Str(S_disable),
        !.targets = Arr(<<Str(S_a_opt_x), TG_top, Str(S_7Scope)>>)]
\* a trigger that names nothing in the schema
N_unknown ==
    [EmptyRule EXCEPT !.action = Str(S_SHOW), !.fieldId = Str(S_zz),
        !.targets = Arr(<<Str(S_m)>>)]

\* conditions: a null entry, one by label under rightFieldId, one on an
\* unknown field, one by option composite
N_conds ==
    [EmptyRule EXCEPT !.action = Str(S_hide), !.whenField = Str(S_m),
        !.op = Str(S_isEmpty),
        !.conditions = Arr(<<Null,
                             [EmptyCond EXCEPT !.rightFieldId = Str(S_Top)],
                             [EmptyCond EXCEPT !.fieldId = Str(S_zz)],
                             [EmptyCond EXCEPT !.fieldId = Str(S_a_opt_red)]>>),
        !.targets = Arr(<<T_7>>)]

\* the expected value under `value`, the trigger a select field
N_value ==
    [EmptyRule EXCEPT !.action = Str(S_SHOW), !.fieldId = Str(S_a),
        !.operator = Str(S_equals), !.value = Str(S_r), !.targets = Arr(<<Str(S_m)>>)]
\* the expected values under `expected`, the trigger a multichoice field
N_expected ==
    [EmptyRule EXCEPT !.action = Str(S_HIDE), !.fieldId = Str(S_m),
        !.op = Str(S_anyOf), !.expected = Arr(<<Str(S_N)>>), !.targets = Arr(<<Str(S_a)>>)]

\* an option target in the shape the field normalizer emits: its id is the
\* option composite
TG_emitted ==
    [EmptyTarget EXCEPT !.id = Str(S_a_opt_red), !.fieldId = Str(S_a),
        !.optionValue = Str(S_r), !.optionLabel = Str(S_Red)]
N_optionTarget ==
    [EmptyRule EXCEPT !.action = Str(S_HIDE), !.fieldId = Str(S_top),
        !.op = Str(S_isNotEmpty), !.targets = Arr(<<TG_emitted>>)]

NormRulePool ==
    {N_byId, N_byLabel, N_byField, N_labelOption, N_optionLabel, N_composite,
     N_unknown, N_conds, N_value, N_expected, N_optionTarget, Null}

\* Longest raw rule list handed to a normalizer.
MaxNormRules == 2

InitNorm ==
    /\ op = "init"
    /\ schema = NormSchema
    /\ rules \in SeqsUpTo(NormRulePool, MaxNormRules)
    /\ base \in {None, EvalBaseline}
    /\ vals = None /\ ref = None /\ pos = 0 /\ out = None /\ out2 = None

\* The flat array of the baseline handed over (none: empty)
BaselineFlat == IF base = None THEN <<>> ELSE base

\* const out = [] (rules-core.js:743-744)
BeginNormalizeHeadings ==
    /\ op = "init"
    /\ op' = "normalizeHeadingsRulesForSchema"
    /\ pos' = 0
    /\ out' = <<>>
    /\ UNCHANGED <<schema, vals, rules, base, ref, out2>>

\* One iteration of `for (const raw of rules)` (rules-core.js:746-788)
NormalizeHeadingsStep ==
    /\ op = "normalizeHeadingsRulesForSchema"
    /\ pos < Len(rules)
    /\ pos' = pos + 1
    /\ out' = out \o NormalizeHeadingRule(schema, BuildHeadingTargetIndex(BaselineFlat),
                                          rules[pos + 1])
    /\ UNCHANGED <<op, schema, vals, rules, base, ref, out2>>

\* const out = [] (rules-core.js:794-795)
BeginNormalizeFields ==
    /\ op = "init"
    /\ op' = "normalizeFieldRulesForSchema"
    /\ pos' = 0
    /\ out' = <<>>
    /\ UNCHANGED <<schema, vals, rules, base, ref, out2>>

\* One iteration of `for (const raw of rules)` (rules-core.js:799-934)
NormalizeFieldsStep ==
    /\ op = "normalizeFieldRulesForSchema"
    /\ pos < Len(rules)
    /\ pos' = pos + 1
    /\ out' = out \o NormalizeFieldRule(schema, rules[pos + 1])
    /\ UNCHANGED <<op, schema, vals, rules, base, ref, out2>>

NextNorm ==
    \/ BeginNormalizeHeadings \/ NormalizeHeadingsStep
    \/ BeginNormalizeFields \/ NormalizeFieldsStep

SpecNorm == InitNorm /\ [][NextNorm]_vars

\* out holds the rules emitted so far by a normalizer
Normalizing ==
    op \in {"normalizeHeadingsRulesForSchema", "normalizeFieldRulesForSchema"}

\* C4: every rule emitted by either normalizer has a fieldId that is the
\* id of a field of the schema, whatever form the raw trigger reference
\* took (id, label, "label: option", option label, option composite, or
\* given under field / whenField).
C4_FieldIdExists ==
    Normalizing =>
        \A i \in 1..Len(out) :
            /\ out[i].fieldId.t = "str"
            /\ out[i].fieldId.v \in FieldIds(schema)

\* The raw rule just folded was emitted (it is the last rule of out)
LastEmitted ==
    /\ pos >= 1
    /\ Truthy(rules[pos])
    /\ ResolveFieldRef(schema, TriggerRef(rules[pos])) # Null

\* No raw target of the rule resolves against the schema (or it has none)
NoTargetResolves(raw) ==
    \A i \in 1..Len(RuleTargets(raw)) :
        NormalizeFieldTarget(schema, BuildOptionIndex(schema),
                             ResolveFieldRef(schema, TriggerRef(raw)),
                             RuleTargets(raw)[i]) = <<>>

\* C8: field-domain normalization never emits an empty target list --
\* every emitted rule has at least one target, and a rule none of whose raw
\* targets resolve (or that has none) gets exactly one field target whose
\* id and fieldId are the id of its resolved trigger field.
C8_FieldTargetsNonEmpty ==
    op = "normalizeFieldRulesForSchema" =>
        /\ \A i \in 1..Len(out) :
              out[i].targets.t = "arr" /\ Len(out[i].targets.v) >= 1
        /\ (LastEmitted /\ NoTargetResolves(rules[pos])) =>
              /\ Len(out[Len(out)].targets.v) = 1
              /\ out[Len(out)].targets.v[1].id =
                    Str(ResolveFieldRef(schema, TriggerRef(rules[pos])).id)
              /\ out[Len(out)].targets.v[1].fieldId =
                    Str(ResolveFieldRef(schema, TriggerRef(rules[pos])).id)
              /\ IsNullish(out[Len(out)].targets.v[1].optionValue)

\* A rule whose raw targets all fail to resolve has just been emitted by
\* the field normalizer, and so has a rule without any targets.
C8_Witness ==
    /\ op = "normalizeFieldRulesForSchema"
    /\ pos = 2 /\ Len(out) = 2
    /\ rules = <<N_byField, N_byLabel>>
    /\ Len(RuleTargets(N_byLabel)) = 3 /\ NoTargetResolves(N_byLabel)
    /\ out[1].targets = Arr(<<PlainFieldTarget(F_m)>>)
    /\ out[2].targets = Arr(<<PlainFieldTarget(F_a)>>)

\* C9: heading-domain normalization keeps the canonical-rule invariant --
\* every emitted rule has at least one target, the trigger field itself
\* when the raw rule has no targets or none of them resolve.
C9_HeadingTargetsNonEmpty ==
    op = "normalizeHeadingsRulesForSchema" =>
        \A i \in 1..Len(out) :
            out[i].targets.t = "arr" /\ Len(out[i].targets.v) >= 1

(***************************************************************************)
(* dedupeRules (rules-core.js:70-87)                                       *)
(***************************************************************************)

\* JSON.stringify of a shallow clone without `version` and `ts`: a property
\* whose value is undefined is not serialized, NaN is serialized as null;
\* the serialization keeps the order of the properties.
DedupeKey(r) ==
    IF r.t = "obj"
    THEN LET kept == SelectSeq(r.props,
                        LAMBDA p : p.k \notin {"version", "ts"} /\ p.v.t # "undef")
         IN Obj([i \in 1..Len(kept) |->
                    Prop(kept[i].k, IF kept[i].v.t = "nan" THEN Null ELSE kept[i].v)])
    ELSE IF r.t = "nan" THEN Null ELSE r

\* Mutant of DedupeIsNew: the membership test inverted.
DedupeIsNewInverted(key, seen) == key \in seen

\* if (!seen.has(key))   (rules-core.js:81)
DedupeIsNew(key, seen) == key \notin seen

RECURSIVE DedupeLoop(_, _, _)
DedupeLoop(arr, seen, acc) ==
    IF arr = <<>> THEN acc
    ELSE LET r == Head(arr) IN
         IF Falsy(r) THEN DedupeLoop(Tail(arr), seen, acc)
         ELSE LET key == DedupeKey(r) IN
              IF DedupeIsNew(key, seen)
              THEN DedupeLoop(Tail(arr), seen \cup {key}, Append(acc, r))
              ELSE DedupeLoop(Tail(arr), seen \cup {key}, acc)

dedupeRules(arr) == DedupeLoop(arr, {}, <<>>)

\* Longest rule list handed to dedupeRules.
MaxDedupeList == 3

\* Records handed to dedupeRules: rule objects with and without the
\* volatile fields, in both property orders, the same two fields written
\* in either order, a null entry and a string.
DedupePool ==
    { Null,
      Str(<<"x">>),
      Obj(<<Prop("action", Num(1))>>),
      Obj(<<Prop("action", Num(2))>>),
      Obj(<<Prop("action", Num(1)), Prop("ts", Num(1))>>),
      Obj(<<Prop("action", Num(1)), Prop("ts", Num(2))>>),
      Obj(<<Prop("ts", Num(1)), Prop("action", Num(1))>>),
      Obj(<<Prop("action", Num(1)), Prop("version", Num(1))>>),
      Obj(<<Prop("action", Num(1)), Prop("version", Num(2)), Prop("ts", Num(1))>>),
      Obj(<<Prop("action", Num(2)), Prop("ts", Num(1))>>),
      Obj(<<Prop("action", Num(1)), Prop("fieldId", Undef)>>),
      Obj(<<Prop("action", Num(1)), Prop("fieldId", Str(<<"a">>)), Prop("ts", Num(1))>>),
      Obj(<<Prop("fieldId", Str(<<"a">>)), Prop("action", Num(1)), Prop("ts", Num(2))>>) }

InitDedupe ==
    /\ op = "init"
    /\ rules \in SeqsUpTo(DedupePool, MaxDedupeList)
    /\ schema = None /\ vals = None /\ base = None /\ ref = None
    /\ pos = 0 /\ out = None /\ out2 = None

\* out = dedupeRules(rules)
Dedupe ==
    /\ op = "init"
    /\ op' = "dedupeRules"
    /\ out' = dedupeRules(rules)
    /\ UNCHANGED <<schema, vals, rules, base, ref, pos, out2>>

\* out2 = dedupeRules(out)
DedupeAgain ==
    /\ op = "dedupeRules"
    /\ op' = "dedupeRules2"
    /\ out2' = dedupeRules(out)
    /\ UNCHANGED <<schema, vals, rules, base, ref, pos, out>>

NextDedupe == Dedupe \/ DedupeAgain

SpecDedupe == InitDedupe /\ [][NextDedupe]_vars

\* C10: dedup idempotence -- for every rule list X (null entries and
\* records carrying version/ts included) dedupeRules(dedupeRules(X)) equals
\* dedupeRules(X) element for element.
C10_DedupIdempotent ==
    op = "dedupeRules2" =>
        /\ Len(out2) = Len(out)
        /\ \A i \in 1..Len(out) : out2[i] = out[i]

\* A list with a null entry and two records differing only in ts has been
\* de-duplicated twice, and the first pass removed something.
C10_Witness ==
    /\ op = "dedupeRules2"
    /\ \E i \in 1..Len(rules) : rules[i] = Null
    /\ \E i, j \in 1..Len(rules) :
          /\ i < j
          /\ rules[i] = Obj(<<Prop("action", Num(1)), Prop("ts", Num(1))>>)
          /\ rules[j] = Obj(<<Prop("action", Num(1)), Prop("ts", Num(2))>>)
    /\ Len(out) = 1
    /\ out[1] = Obj(<<Prop("action", Num(1)), Prop("ts", Num(1))>>)

\* The fields of a record other than version and ts, as a set of
\* name/value pairs (a field holding undefined counts as no field)
StableFields(r) ==
    {r.props[i] : i \in {j \in 1..Len(r.props) :
                            r.props[j].k \notin {"version", "ts"} /\ r.props[j].v.t # "undef"}}

\* Two records that differ in nothing but their version and/or ts fields
DifferOnlyInVolatile(a, b) ==
    a.t = "obj" /\ b.t = "obj" /\ StableFields(a) = StableFields(b)

\* s is an order-preserving subsequence of t
IsSubsequence(s, t) ==
    \E f \in [1..Len(s) -> 1..Len(t)] :
        /\ \A i \in 1..Len(s) : s[i] = t[f[i]]
        /\ \A i, j \in 1..Len(s) : i < j => f[i] < f[j]

\* C11: dedupeRules collapses records that differ only in their top-level
\* version and/or ts fields into one entry -- the first such record of the
\* input, returned as the original object with version/ts intact -- and the
\* output is an order-preserving subsequence of the input.
C11_VolatileCollapse ==
    op = "dedupeRules" =>
        /\ IsSubsequence(out, rules)
        /\ \A j \in 1..Len(rules) :
              rules[j].t = "obj" =>
                 LET class == {i \in 1..Len(rules) : DifferOnlyInVolatile(rules[i], rules[j])}
                     first == CHOOSE i \in class : \A k \in class : i <= k
                     kept  == {k \in 1..Len(out) : DifferOnlyInVolatile(out[k], rules[j])}
                 IN /\ Cardinality(kept) = 1
                    /\ \A k \in kept : out[k] = rules[first]

(***************************************************************************)
(* normalizeTarget of a heading index over baselines in every order        *)
(* (rules-core.js:396-541)                                                 *)
(***************************************************************************)

S_Intro   == <<"I","n","t","r","o">>
S_Scope   == <<"S","c","o","p","e">>
S_Nowhere == <<"N","o","w","h","e","r","e">>

\* Baseline records: sparse explicit idx, an id and a number that spell
\* another record's idx, a record without idx
HeadingPool ==
    { Heading(Undef, Num(5), Str(S_Intro), Undef),
      Heading(Undef, Num(7), Str(S_Scope), Str(<<"1",".","1">>)),
      Heading(Str(<<"h","0">>), Num(0), Undef, Undef),
      Heading(Str(<<"7">>), Num(2), Undef, Undef),
      Heading(Undef, Num(1), Str(S_Scope), Str(<<"5">>)),
      Heading(Undef, Undef, Str(<<"N","o","t","e","s">>), Undef),
      Heading(Undef, Null, Str(<<"E","n","d">>), Undef) }

MaxBaseline == 3

\* Targets: numbers, strings, null, and objects with and without idx/label
TargetPool ==
    { Num(5), Num(7), Num(0), Num(1), Num(2), Num(9),
      Str(<<"7">>), Str(S_Scope), Str(S_zz), Null,
      EmptyTarget,
      [EmptyTarget EXCEPT !.idx = Num(5)],
      [EmptyTarget EXCEPT !.idx = Num(9)],
      [EmptyTarget EXCEPT !.idx = Num(9), !.label = Str(S_Nowhere)],
      [EmptyTarget EXCEPT !.label = Str(S_Nowhere)],
      [EmptyTarget EXCEPT !.label = Str(S_Scope)],
      [EmptyTarget EXCEPT !.id = Str(S_zz)],
      [EmptyTarget EXCEPT !.id = Str(S_zz), !.label = Str(S_Nowhere)] }

InitHeading ==
    /\ op = "init"
    /\ base \in SeqsUpTo(HeadingPool, MaxBaseline)
    /\ ref \in TargetPool
    /\ schema = None /\ vals = None /\ rules = None
    /\ pos = 0 /\ out = None /\ out2 = None

\* buildHeadingTargetIndex(base).normalizeTarget(ref)
NormalizeTargetCall ==
    /\ op = "init"
    /\ out' = NormalizeTarget(BuildHeadingTargetIndex(base), ref)
    /\ op' = "normalizeTarget"
    /\ UNCHANGED <<schema, vals, rules, base, ref, pos, out2>>

NextHeading == NormalizeTargetCall

SpecHeading == InitHeading /\ [][NextHeading]_vars

\* Every record carries an explicit finite idx, the idx values are pairwise
\* distinct, and no id or number spells another record's idx
StableBaseline(b) ==
    /\ \A i \in 1..Len(b) : b[i].idx.t = "num"
    /\ \A i, j \in 1..Len(b) :
          i # j => /\ b[i].idx # b[j].idx
                   /\ IsNullish(b[i].id) \/ ToStr(b[i].id) # ToStr(b[j].idx)
                   /\ IsNullish(b[i].number) \/ Trim(ToStr(b[i].number)) # ToStr(b[j].idx)

\* out is the target built from baseline record h
TargetOfRecord(h) ==
    /\ out # Null
    /\ out.idx = h.idx
    /\ ~IsNullish(h.id) => out.id = Str(ToStr(h.id))
    /\ Truthy(h.label) => out.label = Str(ToStr(h.label))

\* C12: heading idx stability -- with a baseline whose records all carry
\* explicit, finite, pairwise distinct idx values (no id or number spelling
\* another record's idx), normalizeTarget(k) for a number k equal to some
\* record's idx returns that record with idx k, under every permutation of
\* the baseline array; the idx never comes from the array position.
C12_IdxStable ==
    (op = "normalizeTarget" /\ StableBaseline(base) /\ ref.t = "num"
        /\ \E i \in 1..Len(base) : base[i].idx = ref)
    => /\ \A i \in 1..Len(base) : base[i].idx = ref => TargetOfRecord(base[i])
       /\ \A p \in Permutations(1..Len(base)) :
             NormalizeTarget(BuildHeadingTargetIndex(Permuted(base, p)), ref) = out

\* idx 7 asked of a three-record baseline where the record sits at position 0
C12_Witness ==
    /\ op = "normalizeTarget" /\ StableBaseline(base) /\ Len(base) = 3
    /\ ref = Num(7) /\ base[1].idx = Num(7)
    /\ out # Null /\ out.idx = Num(7) /\ out.label = Str(S_Scope)

(***************************************************************************)
(* Scenario A: the heading pass over one HIDE rule "a equals v" with one   *)
(* target {idx: n}, the resolver built from a baseline                     *)
(***************************************************************************)

R_scenarioA(v, n) ==
    [EmptyRule EXCEPT !.action = Str(S_HIDE), !.fieldId = Str(S_a),
        !.op = Str(S_equals), !.values = Arr(<<Str(v)>>),
        !.targets = Arr(<<[EmptyTarget EXCEPT !.idx = Num(n)]>>)]

\* Largest heading idx a scenario target names
MaxTargetIdx == 8

\* Stored values of the select field
ScenarioValues == {S_r, S_x, <<>>, <<"R">>, <<"r", " ">>}

\* Baselines: none of the headings, sparse idx, idx by array position
ScenarioBaselines ==
    { <<>>, EvalBaseline,
      <<Heading(Undef, Undef, Str(S_Intro), Undef),
        Heading(Str(<<"h","0">>), Num(0), Undef, Undef)>> }

InitScenarioA ==
    /\ op = "init"
    /\ schema = <<F_a, F_m>>
    /\ \E v \in {S_r, S_x, <<>>}, n \in 0..MaxTargetIdx : rules = <<R_scenarioA(v, n)>>
    /\ \E K \in SUBSET {S_a, S_m} :
          vals \in [K -> {Str(x) : x \in ScenarioValues}]
    /\ base \in ScenarioBaselines
    /\ ref = None /\ pos = 0 /\ out = None /\ out2 = None

SpecScenarioA == InitScenarioA /\ [][NextEval]_vars

\* C13: Scenario A generalised -- in the heading pass with a resolver built
\* by buildHeadingTargetIndex, a single HIDE rule on a select field with
\* operator equals, expected [v] and one target {idx: n} yields exactly
\* {n: HIDE} when the field's value equals v, and exactly the empty map
\* when the field holds a different value (or none).
C13_ScenarioA ==
    HeadingPassDone =>
        out = IF BagGet(vals, S_a) = RuleExpected(rules[1]).v[1]
              THEN (ToStr(RuleTargets(rules[1])[1].idx) :> "HIDE")
              ELSE EmptyMap

\* the field holds the expected value and idx 7 is hidden
C13_Witness ==
    /\ HeadingPassDone /\ base = EvalBaseline
    /\ BagGet(vals, S_a) = Str(S_x) /\ RuleExpected(rules[1]).v[1] = Str(S_x)
    /\ out = (<<"7">> :> "HIDE")

\* the field holds another value and nothing is written
C13_WitnessOther ==
    /\ HeadingPassDone
    /\ BagGet(vals, S_a) = Str(<<"R">>) /\ RuleExpected(rules[1]).v[1] = Str(S_r)
    /\ out = EmptyMap

(***************************************************************************)
(* The option-composite trigger: one raw rule is rewritten by              *)
(* __normalizeWhenOptionRefAgainstSchema, the rewritten rule is evaluated  *)
(* by either pass.  `ref` keeps the raw rule.                              *)
(***************************************************************************)

S_a_opt_RED == S_a \o OPT \o <<"R","E","D">>
S_E == <<"E">>

\* A SHOW rule whose trigger is the composite c, stored under key
\* (fieldId, field or whenField), with the operator and expected value the
\* author left on it
R_option(c, key, shape) ==
    [EmptyRule EXCEPT
        !.action    = Str(S_SHOW),
        !.fieldId   = IF key = "fieldId" THEN Str(c) ELSE Undef,
        !.field     = IF key = "field" THEN Str(c) ELSE Undef,
        !.whenField = IF key = "whenField" THEN Str(c) ELSE Undef,
        !.op        = IF shape = "op" THEN Str(S_notEquals) ELSE Undef,
        !.values    = IF shape = "op" THEN Arr(<<Str(S_true)>>) ELSE Undef,
        !.operator  = IF shape = "operator" THEN Str(S_equals) ELSE Undef,
        !.value     = IF shape = "operator" THEN Str(S_true) ELSE Undef,
        !.targets   = Arr(<<T_5, Str(S_7Scope)>>)]

OptionComposites == {S_a_opt_red, S_a_opt_x, S_a_opt_RED, S_m_opt_north}

\* Most options selected on the multichoice field
MaxSelected == 2

SelectStored == {Str(S_r), Str(S_x), Str(S_Red), Str(<<>>)}
MultiStored ==
    {Arr(a) : a \in DistinctSeqsUpTo({Str(S_N), Str(S_E)}, MaxSelected)} \cup {Str(S_N)}

OptionBags ==
    UNION {{b \in [K -> SelectStored \cup MultiStored] :
               /\ S_a \in K => b[S_a] \in SelectStored
               /\ S_m \in K => b[S_m] \in MultiStored} : K \in SUBSET {S_a, S_m}}

InitOption ==
    /\ op = "init"
    /\ schema = <<F_a, F_m, F_top>>
    /\ \E c \in OptionComposites, key \in {"fieldId", "field", "whenField"},
          shape \in {"none", "op", "operator"} : rules = <<R_option(c, key, shape)>>
    /\ vals \in OptionBags
    /\ base = EvalBaseline
    /\ ref = None /\ pos = 0 /\ out = None /\ out2 = None

\* rule = __normalizeWhenOptionRefAgainstSchema(schema, rule)
NormalizeWhenOptionRef ==
    /\ op = "init"
    /\ ref' = rules[1]
    /\ rules' = <<NormalizeWhenOptionRefAgainstSchema(schema, rules[1])>>
    /\ op' = "normalizeWhenOptionRef"
    /\ UNCHANGED <<schema, vals, base, pos, out, out2>>

\* evaluateRulesToVisibility(schema, values, [rule], resolver)
EvaluateRewrittenHeadings ==
    /\ op = "normalizeWhenOptionRef"
    /\ out' = EvaluateRulesToVisibility(schema, vals, rules, Resolver)
    /\ op' = "evaluateRulesToVisibility"
    /\ UNCHANGED <<schema, vals, rules, base, ref, pos, out2>>

\* evaluateFieldRulesToVisibility(schema, values, [rule])
EvaluateRewrittenFields ==
    /\ op = "normalizeWhenOptionRef"
    /\ out' = EvaluateFieldRulesToVisibility(schema, vals, rules)
    /\ op' = "evaluateFieldRulesToVisibility"
    /\ UNCHANGED <<schema, vals, rules, base, ref, pos, out2>>

NextOption == NormalizeWhenOptionRef \/ EvaluateRewrittenHeadings \/ EvaluateRewrittenFields

SpecOption == InitOption /\ [][NextOption]_vars

\* The parent field a composite names, and the option of it whose label
\* slug is the composite's slug
CompositeParent(fields, c) ==
    fields[CHOOSE i \in 1..Len(fields) : fields[i].id = Split(c, OPT)[1]]

CompositeOption(fields, c) ==
    LET os == OptionRec(CompositeParent(fields, c)).options IN
    os[CHOOSE i \in 1..Len(os) : os[i].slug = ToLower(Split(c, OPT)[2])]

\* The option value is stored on the field: the select value itself, or a
\* member of the multichoice selection
ValueSelected(clean, fid, value) ==
    IF BagGet(clean, fid).t = "arr"
    THEN SeqHas(BagGet(clean, fid).v, Str(value))
    ELSE BagGet(clean, fid) = Str(value)

\* The rule was rewritten onto parent with operator o and expected [value]
RewrittenOnto(r, parent, value) ==
    /\ r.fieldId = Str(parent.id)
    /\ r.op = Str(IF parent.type = "multichoice" THEN S_anyOf ELSE S_equals)
    /\ r.values = Arr(<<Str(value)>>)

\* C14: an option-composite trigger '<fieldId>__opt__<slug>' naming an
\* existing option is rewritten to fieldId = parent field id with op anyOf
\* and expected [optionValue] for a multichoice parent, op equals and
\* expected [optionValue] for a select parent; the rewritten rule then
\* matches in evaluation (writes its target) exactly when that option is
\* currently selected on the parent.
C14_OptionTriggerRewrite ==
    op # "init" =>
        /\ RewrittenOnto(rules[1], CompositeParent(schema, TriggerRef(ref).v),
                         CompositeOption(schema, TriggerRef(ref).v).value)
        /\ op # "normalizeWhenOptionRef" =>
              (out # EmptyMap <=>
                  ValueSelected(SanitizeValues(schema, vals),
                                CompositeParent(schema, TriggerRef(ref).v).id,
                                CompositeOption(schema, TriggerRef(ref).v).value))

\* m__opt__north rewritten to anyOf ['N'] matches the selection ['E','N']
C14_Witness ==
    /\ op = "evaluateRulesToVisibility"
    /\ TriggerRef(ref) = Str(S_m_opt_north)
    /\ ref.op = Str(S_notEquals)
    /\ rules[1].op = Str(S_anyOf) /\ rules[1].values = Arr(<<Str(S_N)>>)
    /\ BagGet(vals, S_m) = Arr(<<Str(S_E), Str(S_N)>>)
    /\ out = (<<"5">> :> "SHOW") @@ (<<"7">> :> "SHOW")

\* C15: sanitizeValues (and therefore both passes, which call it first)
\* returns normally for every raw value bag -- no raw value makes it raise
\* an exception; an unparsable value, a date field holding an invalid Date
\* object included, is dropped from the sanitized bag.
C15_SanitizeNeverThrows ==
    op = "sanitizeValues" =>
        /\ out # Throw
        /\ \A i \in 1..Len(schema) :
              (schema[i].type = "date" /\ BagGet(vals, schema[i].id) = InvalidDate)
                  => schema[i].id \notin DOMAIN out

(***************************************************************************)
(* ruleMatchesValue alone on the ordering operators (rules-core.js:723-736)*)
(* `ref` is the operator, `rules` the expected value, `vals` the actual    *)
(* value, `schema` the field type, `out` the returned boolean.             *)
(***************************************************************************)

\* Largest number drawn as an operand
MaxOperand == 2

\* Operands: numbers, numeric and other text, the empty string, null and
\* undefined (an absent value)
Operands ==
    {Num(n) : n \in -1..MaxOperand} \cup
    { Str(<<>>), Str(S_abc), Str(S_12), Str(<<" ">>), Null, Undef }

InitCompare ==
    /\ op = "init"
    /\ ref \in {Str(S_gt), Str(S_lt), Str(S_gte), Str(S_lte)}
    /\ rules \in Operands \cup {Arr(<<e>>) : e \in Operands} \cup {Arr(<<>>)}
    /\ vals \in Operands
    /\ schema \in {"number", "text"}
    /\ base = None /\ pos = 0 /\ out = None /\ out2 = None

\* out = ruleMatchesValue(op, expected, actual, fieldType)
Compare ==
    /\ op = "init"
    /\ out' = RuleMatchesValue(ref, rules, vals, schema)
    /\ op' = "ruleMatchesValue"
    /\ UNCHANGED <<schema, vals, rules, base, ref, pos, out2>>

NextCompare == Compare

SpecCompare == InitCompare /\ [][NextCompare]_vars

\* The expected operand: expected[0] of a sequence, else expected itself
ExpectedOperand(e) ==
    IF e.t = "arr" THEN (IF Len(e.v) > 0 THEN e.v[1] ELSE Undef) ELSE e

\* C16: ruleMatchesValue with operator gt/lt/gte/lte never matches when the
\* actual value or the expected value is not a number (the empty string,
\* null, absent, or non-numeric text), and raises no exception.
C16_OrderingNeedsNumbers ==
    op = "ruleMatchesValue" =>
        /\ out \in BOOLEAN
        /\ (NotNumericRaw(vals) \/ NotNumericRaw(ExpectedOperand(rules))) => out = FALSE

(***************************************************************************)
(* Rule aggregation (rules-core.js:23-68, 89-175)                          *)
(*                                                                         *)
(* A state and its payload containers are plain objects Obj(props).  A     *)
(* string of JSON text is [t |-> "json", v |-> the value JSON.parse        *)
(* returns for it]; every other string drawn as input is blank, no JSON,   *)
(* or the JSON of a number, all of which add no rule.  A Set is            *)
(* [t |-> "set", v |-> its members in insertion order].                    *)
(***************************************************************************)

JsonText(v) == [t |-> "json", v |-> v]
SetOf(members) == [t |-> "set", v |-> members]

\* hasOwn(obj, key)
HasOwn(o, k) == o.t = "obj" /\ \E i \in 1..Len(o.props) : o.props[i].k = k

\* Object.values(o)
ObjectValues(o) == [i \in 1..Len(o.props) |-> o.props[i].v]

\* maybeRule.action || maybeRule.fieldId || maybeRule.whenField || maybeRule.targets
RuleLike(o) ==
    \/ Truthy(GetProp(o, "action"))
    \/ Truthy(GetProp(o, "fieldId"))
    \/ Truthy(GetProp(o, "whenField"))
    \/ Truthy(GetProp(o, "targets"))

\* inner(val) of normalizeRuleCollection : the rules it pushes, in order
RECURSIVE CollectInner(_)
RECURSIVE CollectInnerAll(_)
CollectInnerAll(vs) ==
    IF vs = <<>> THEN <<>> ELSE CollectInner(Head(vs)) \o CollectInnerAll(Tail(vs))

CollectInner(val) ==
    CASE IsNullish(val)  -> <<>>
      [] val.t = "arr"   -> CollectInnerAll(val.v)
      [] val.t = "set"   -> CollectInnerAll(val.v)
      [] val.t = "str"   -> <<>>
      [] val.t = "json"  -> CollectInner(val.v)
      [] val.t = "obj"   -> IF RuleLike(val) THEN <<val>>
                            ELSE CollectInnerAll(ObjectValues(val))
      [] OTHER           -> <<>>

\* normalizeRuleCollection(raw)
normalizeRuleCollection(raw) == CollectInner(raw)

\* addSource(name, obj) for one of the keys rules / fieldRules : the
\* [name, list] pairs it pushes (rules-core.js:100-108)
AddSource(name, obj, key) ==
    IF Falsy(obj) \/ ~IsObjectType(obj) THEN <<>>
    ELSE IF Truthy(GetProp(obj, key))
         THEN <<[name |-> name, arr |-> normalizeRuleCollection(GetProp(obj, key))]>>
         ELSE <<>>

\* state.payload when it is an object, else null (rules-core.js:110-112)
PayloadOf(state) ==
    IF Truthy(GetProp(state, "payload")) /\ IsObjectType(GetProp(state, "payload"))
    THEN GetProp(state, "payload") ELSE Null

\* (payload && payload.CRONOS_PAYLOAD) || state.CRONOS_PAYLOAD
\*    || state.cronos_payload || null
CronosPayloadOf(state) ==
    OrElse(IF PayloadOf(state) = Null THEN Null
           ELSE GetProp(PayloadOf(state), "CRONOS_PAYLOAD"),
           OrElse(GetProp(state, "CRONOS_PAYLOAD"),
                  OrElse(GetProp(state, "cronos_payload"), Null)))

\* The sources in the order payload, CRONOS payload, state
AggregateSourcesPayloadFirst(state, key) ==
    (IF PayloadOf(state) # Null THEN AddSource("payload", PayloadOf(state), key) ELSE <<>>)
    \o AddSource("payload.CRONOS_PAYLOAD", CronosPayloadOf(state), key)
    \o AddSource("state", state, key)

\* The three addSource calls in order (rules-core.js:120-122)
AggregateSources(state, key) ==
    AddSource("payload.CRONOS_PAYLOAD", CronosPayloadOf(state), key)
    \o (IF PayloadOf(state) # Null THEN AddSource("payload", PayloadOf(state), key) ELSE <<>>)
    \o AddSource("state", state, key)

\* sources.flatMap(([, arr]) => arr)
RECURSIVE FlatRules(_)
FlatRules(sources) ==
    IF sources = <<>> THEN <<>> ELSE Head(sources).arr \o FlatRules(Tail(sources))

\* sources.filter(([, arr]) => arr.length > 0).map(([name]) => name)
SourceNames(sources) ==
    LET kept == SelectSeq(sources, LAMBDA p : Len(p.arr) > 0) IN
    [i \in 1..Len(kept) |-> kept[i].name]

\* extractRulesFromState(state), state an object
extractRulesFromState(state) ==
    [rules      |-> dedupeRules(FlatRules(AggregateSources(state, "rules"))),
     fieldRules |-> dedupeRules(FlatRules(AggregateSources(state, "fieldRules"))),
     meta |-> [rulesSources     |-> SourceNames(AggregateSources(state, "rules")),
               fieldRuleSources |-> SourceNames(AggregateSources(state, "fieldRules"))]]

\* o with property k set to v (in place when o has the key, else appended)
SetProp(o, k, v) ==
    IF HasOwn(o, k)
    THEN Obj([i \in 1..Len(o.props) |-> IF o.props[i].k = k THEN Prop(k, v) ELSE o.props[i]])
    ELSE Obj(Append(o.props, Prop(k, v)))

\* The view of the state (rules-core.js:139-148)
ViewOf(state, payloadOverride) ==
    IF Falsy(payloadOverride) THEN state
    ELSE SetProp(SetProp(SetProp(state, "payload",
                    SetProp(SpreadObject(OrElse(GetProp(state, "payload"), Obj(<<>>))),
                            "CRONOS_PAYLOAD", payloadOverride)),
                 "CRONOS_PAYLOAD", payloadOverride),
         "cronos_payload", payloadOverride)

\* aggregated.meta.rulesSources[0] || 'none'
FirstSourceOrNone(names) == IF names = <<>> THEN "none" ELSE names[1]

\* The rest of resolveRulesForState, the view and its aggregate built
\* (rules-core.js:152-174)
ResolveFromView(view, aggregated) ==
    [rules      |-> IF HasOwn(view, "rules")
                    THEN dedupeRules(normalizeRuleCollection(GetProp(view, "rules")))
                    ELSE aggregated.rules,
     fieldRules |-> IF HasOwn(view, "fieldRules")
                    THEN dedupeRules(normalizeRuleCollection(GetProp(view, "fieldRules")))
                    ELSE aggregated.fieldRules,
     source |->
        [rules      |-> IF HasOwn(view, "rules") THEN "workspace.rules"
                        ELSE FirstSourceOrNone(aggregated.meta.rulesSources),
         fieldRules |-> IF HasOwn(view, "fieldRules") THEN "workspace.fieldRules"
                        ELSE FirstSourceOrNone(aggregated.meta.fieldRuleSources),
         contributingRules      |-> aggregated.meta.rulesSources,
         contributingFieldRules |-> aggregated.meta.fieldRuleSources]]

\* resolveRulesForState(state, payloadOverride), state an object
resolveRulesForState(state, payloadOverride) ==
    ResolveFromView(ViewOf(state, payloadOverride),
                    extractRulesFromState(ViewOf(state, payloadOverride)))

(***************************************************************************)
(* Specification of resolveRulesForState: `ref` is the state, `base` the   *)
(* payloadOverride argument, `out` the returned {rules, fieldRules,        *)
(* source}.                                                                *)
(***************************************************************************)

A_r1   == Obj(<<Prop("action", Str(S_HIDE)), Prop("fieldId", Str(S_a))>>)
A_r1ts == Obj(<<Prop("action", Str(S_HIDE)), Prop("fieldId", Str(S_a)), Prop("ts", Num(1))>>)
A_r2   == Obj(<<Prop("action", Str(S_SHOW)), Prop("whenField", Str(S_m))>>)
A_r3   == Obj(<<Prop("targets", Arr(<<Num(5)>>))>>)

\* Longest rule list stored under a top-level key
MaxCollection == 2

\* An object of the given properties, those marked Absent left out
MkObj(pairs) == Obj(SelectSeq(pairs, LAMBDA q : q.v # Absent))

\* What a state holds under its own rules key: lists, an undefined value,
\* text that is no JSON, JSON text, a wrapper object, one rule, a Set
TopCollections ==
    {Arr(l) : l \in DistinctSeqsUpTo({A_r1, A_r1ts, A_r2}, MaxCollection)} \cup
    { Undef, Str(S_abc), JsonText(Arr(<<A_r2>>)),
      Obj(<<Prop("list", Arr(<<A_r3>>)), Prop("note", Str(S_abc))>>),
      A_r3, SetOf(<<A_r1, A_r2>>) }

CronosPool ==
    { Obj(<<Prop("rules", Arr(<<A_r1ts>>))>>),
      Obj(<<Prop("rules", Arr(<<A_r3>>)), Prop("fieldRules", Arr(<<A_r3>>))>>) }

PayloadPool ==
    { MkObj(<<Prop("rules", r), Prop("fieldRules", f), Prop("CRONOS_PAYLOAD", c)>>) :
        r \in {Absent, Arr(<<A_r1>>), Arr(<<A_r2, A_r1ts>>), Str(S_abc)},
        f \in {Absent, Arr(<<A_r1>>)},
        c \in {Absent} \cup CronosPool }

StatePool ==
    { MkObj(<<Prop("rules", r), Prop("fieldRules", f), Prop("payload", p),
              Prop("CRONOS_PAYLOAD", c), Prop("cronos_payload", d)>>) :
        r \in {Absent} \cup TopCollections,
        f \in {Absent, Arr(<<>>), Arr(<<A_r2>>)},
        p \in {Absent} \cup PayloadPool,
        c \in {Absent} \cup CronosPool,
        d \in {Absent, Obj(<<Prop("rules", Arr(<<A_r2>>))>>)} }

InitAggregate ==
    /\ op = "init"
    /\ ref \in StatePool
    /\ base \in {Undef, Obj(<<Prop("rules", Arr(<<A_r2, A_r3>>))>>)}
    /\ schema = None /\ vals = None /\ rules = None
    /\ pos = 0 /\ out = None /\ out2 = None

\* out = resolveRulesForState(state, payloadOverride)
ResolveRules ==
    /\ op = "init"
    /\ out' = resolveRulesForState(ref, base)
    /\ op' = "resolveRulesForState"
    /\ UNCHANGED <<schema, vals, rules, base, ref, pos, out2>>

NextAggregate == ResolveRules

SpecAggregate == InitAggregate /\ [][NextAggregate]_vars

\* The rules a container holds under key k
ContainerRules(c, k) ==
    IF c.t = "obj" THEN normalizeRuleCollection(GetProp(c, k)) ELSE <<>>

\* The CRONOS payload in force: the override, else the first one present
\* among payload.CRONOS_PAYLOAD, state.CRONOS_PAYLOAD, state.cronos_payload
CronosInForce ==
    IF base # Undef THEN base
    ELSE IF GetProp(GetProp(ref, "payload"), "CRONOS_PAYLOAD") # Undef
         THEN GetProp(GetProp(ref, "payload"), "CRONOS_PAYLOAD")
    ELSE IF GetProp(ref, "CRONOS_PAYLOAD") # Undef THEN GetProp(ref, "CRONOS_PAYLOAD")
    ELSE GetProp(ref, "cronos_payload")

\* C17: top-level precedence of resolveRulesForState -- when the state has
\* its own top-level rules key the returned rules are exactly
\* dedupeRules(normalizeRuleCollection(state.rules)), with nothing from the
\* payload containers even when the top-level collection is empty, and
\* source.rules = 'workspace.rules'; the same independently for fieldRules;
\* when the key is absent the rules are aggregated from the payload
\* containers in the order CRONOS payload, then payload.
C17_TopLevelPrecedence ==
    op = "resolveRulesForState" =>
        \A k \in {"rules", "fieldRules"} :
            IF HasOwn(ref, k)
            THEN /\ out[k] = dedupeRules(normalizeRuleCollection(GetProp(ref, k)))
                 /\ out.source[k] = IF k = "rules" THEN "workspace.rules"
                                    ELSE "workspace.fieldRules"
            ELSE out[k] = dedupeRules(ContainerRules(CronosInForce, k)
                                      \o ContainerRules(GetProp(ref, "payload"), k))

\* an empty top-level list wins over a payload that holds rules, while the
\* fieldRules, with no top-level key, come from the payload
C17_Witness ==
    /\ op = "resolveRulesForState"
    /\ GetProp(ref, "rules") = Arr(<<>>) /\ ~HasOwn(ref, "fieldRules")
    /\ GetProp(GetProp(ref, "payload"), "rules") = Arr(<<A_r2, A_r1ts>>)
    /\ GetProp(GetProp(ref, "payload"), "fieldRules") = Arr(<<A_r1>>)
    /\ out.rules = <<>> /\ out.source.rules = "workspace.rules"
    /\ out.fieldRules = <<A_r1>>

\* with no top-level key the CRONOS payload's record comes first
C17_WitnessOrder ==
    /\ op = "resolveRulesForState" /\ ~HasOwn(ref, "rules") /\ base = Undef
    /\ GetProp(GetProp(ref, "payload"), "rules") = Arr(<<A_r1>>)
    /\ out.rules = <<A_r1ts>>

\* The container a source name stands for
SourceContainer(name) ==
    CASE name = "payload.CRONOS_PAYLOAD" -> CronosInForce
      [] name = "payload"                -> GetProp(ref, "payload")
      [] OTHER                           -> ref

\* Some rule of the returned list is a record of the named source (the
\* same record up to its version/ts)
SourceGaveRule(name, k) ==
    \E i \in 1..Len(out[k]) :
        \E j \in 1..Len(ContainerRules(SourceContainer(name), k)) :
            DedupeKey(out[k][i]) = DedupeKey(ContainerRules(SourceContainer(name), k)[j])

\* C18: contributing sources are recorded faithfully -- the names reported
\* in contributingRules (contributingFieldRules) are exactly the sources
\* from which at least one rule of the returned rules (fieldRules) list was
\* taken: every reported source holds a rule of the returned list, and
\* every rule of the returned list is held by a reported source.
C18_ContributingSources ==
    op = "resolveRulesForState" =>
        /\ \A i \in 1..Len(out.source.contributingRules) :
              SourceGaveRule(out.source.contributingRules[i], "rules")
        /\ \A i \in 1..Len(out.source.contributingFieldRules) :
              SourceGaveRule(out.source.contributingFieldRules[i], "fieldRules")
        /\ \A i \in 1..Len(out.rules) :
              \E n \in 1..Len(out.source.contributingRules) :
                 \E j \in 1..Len(ContainerRules(SourceContainer(out.source.contributingRules[n]), "rules")) :
                    ContainerRules(SourceContainer(out.source.contributingRules[n]), "rules")[j] = out.rules[i]

\* The target object carries a finite idx
HasUsableIdx(tg) == ~IsNullish(tg.idx) /\ ToNumber(tg.idx) # NaN

\* C19: normalizeTarget returns null only for a target that matches no
\* baseline entry and carries neither a usable idx nor a label -- an object
\* target that carries a finite idx or a non-empty label is never answered
\* with null: it is matched, or synthesized into {id, idx, label}.
C19_NullOnlyWithoutIdxAndLabel ==
    (op = "normalizeTarget" /\ ref.t = "tgt" /\ (HasUsableIdx(ref) \/ Truthy(ref.label)))
    => /\ out # Null
       /\ out.id.t = "str" /\ out.idx.t = "num" /\ out.label.t = "str"

\* The raw rule is emitted: it is an object and its trigger resolves
TriggerResolves(raw) ==
    Truthy(raw) /\ ResolveFieldRef(schema, TriggerRef(raw)) # Null

\* Position in the emitted list of the raw rule at position i
EmittedRank(i) == Cardinality({j \in 1..i : TriggerResolves(rules[j])})

\* The conditions of raw whose own reference resolves, in order
ResolvingConditions(raw) ==
    IF raw.conditions.t # "arr" THEN raw.conditions
    ELSE Arr(SelectSeq(raw.conditions.v,
                       LAMBDA c : c # Null /\ ResolveFieldRef(schema,
                            Coalesce(c.fieldId, Coalesce(c.leftFieldId, c.rightFieldId))) # Null))

\* C20: both normalizers emit exactly those raw rules whose trigger
\* reference resolves against the schema, in input order -- a rule with an
\* unresolved trigger is dropped and the rest is still processed -- and
\* each emitted rule keeps exactly those of its AND-conditions whose own
\* reference resolves.
C20_EmitsResolvingRules ==
    Normalizing =>
        /\ Len(out) = EmittedRank(pos)
        /\ \A i \in 1..pos :
              TriggerResolves(rules[i]) =>
                 /\ out[EmittedRank(i)].action = rules[i].action
                 /\ out[EmittedRank(i)].hideMode = rules[i].hideMode
                 /\ out[EmittedRank(i)].conditions = ResolvingConditions(rules[i])

\* after a rule with an unknown trigger was dropped, the next rule is
\* emitted with two of its four conditions
C20_Witness ==
    /\ Normalizing /\ pos = 2
    /\ rules = <<N_unknown, N_conds>>
    /\ Len(out) = 1
    /\ out[1].conditions = Arr(<<[EmptyCond EXCEPT !.rightFieldId = Str(S_Top)],
                                 [EmptyCond EXCEPT !.fieldId = Str(S_a_opt_red)]>>)

\* C21: sanitizer shape -- for every field declared multichoice the
\* sanitized value is always present and is a sequence of strings without
\* duplicates, whether the raw value is absent, null, the empty string, a
\* scalar, an array, or an array with repeated or non-string items.
C21_MultichoiceShape ==
    (op = "sanitizeValues" /\ out # Throw) =>
        \A i \in 1..Len(schema) :
            schema[i].type = "multichoice" =>
                /\ schema[i].id \in DOMAIN out
                /\ out[schema[i].id].t = "arr"
                /\ \A j \in 1..Len(out[schema[i].id].v) : out[schema[i].id].v[j].t = "str"
                /\ \A j, k \in 1..Len(out[schema[i].id].v) :
                      j # k => out[schema[i].id].v[j] # out[schema[i].id].v[k]

\* an array with a repeated and a non-string item becomes ['N', '5']
C21_Witness ==
    /\ op = "sanitizeValues" /\ out # Throw
    /\ \E i \in 1..Len(schema) : schema[i] = F_m
    /\ BagGet(vals, S_m) = Arr(<<Str(S_N), Num(5), Str(S_N)>>)
    /\ out[S_m] = Arr(<<Str(S_N), Str(<<"5">>)>>)

\* an absent raw value becomes the empty sequence
C21_WitnessAbsent ==
    /\ op = "sanitizeValues" /\ out # Throw
    /\ \E i \in 1..Len(schema) : schema[i] = F_m
    /\ S_m \notin DOMAIN vals
    /\ out[S_m] = Arr(<<>>)


(***************************************************************************)
(* Purity: the five entry points called one after another, in any order,  *)
(* on the same arguments.  `schema`, `vals`, `rules`, `base` and `ref` are *)
(* the caller's objects as each call leaves them; `out2` holds the static  *)
(* flag of normalizeHeadingsRulesForSchema and the first result of each    *)
(* entry point.                                                            *)
(***************************************************************************)

\* A normalizer that assigns to the object it was handed
ArgWrittenInPlace(arg, written) == written

\* { ...raw }, { ...rule }, { ...state }: the assignments that follow land
\* on the copy; the object handed in keeps the properties it had
ArgAfterWrites(arg, written) == arg

\* The caller's rule objects after a normalizer ran over them: a rule the
\* loop skipped was never copied or assigned to
RulesAfterNormalize(rs, pushed) ==
    [i \in 1..Len(rs) |->
        IF pushed[i] = <<>> THEN rs[i] ELSE ArgAfterWrites(rs[i], pushed[i][1])]

\* normalizeHeadingsRulesForSchema.__warnedNoBaseline after a call that
\* pushed `pushed` (rules-core.js:771-778)
WarnedAfter(warned, flat, pushed) ==
    \/ warned
    \/ /\ Len(BuildHeadingTargetIndex(flat).flat) = 0
       /\ \E i \in DOMAIN pushed : pushed[i] # <<>> /\ pushed[i][1].targets.t = "arr"

\* What the loop of normalizeHeadingsRulesForSchema pushes for each rule
PushedHeadingRules(fields, rs, flat) ==
    [i \in 1..Len(rs) |-> NormalizeHeadingRule(fields, BuildHeadingTargetIndex(flat), rs[i])]

\* Most calls made in a row
MaxCalls == 3

EntryPoints ==
    {"resolveRulesForState", "normalizeHeadingsRulesForSchema",
     "normalizeFieldRulesForSchema", "evaluateRulesToVisibility",
     "evaluateFieldRulesToVisibility"}

PurityRuleLists ==
    {<<R_showOpt>>, <<N_conds, Null>>, <<R_hideCond, N_composite>>, <<N_byLabel, N_unknown>>}

PurityStates ==
    {Obj(<<Prop("rules", Arr(<<A_r1, A_r1ts>>)), Prop("payload", Obj(<<Prop("rules", Arr(<<A_r2>>))>>))>>),
     Obj(<<Prop("fieldRules", Arr(<<A_r2>>)), Prop("CRONOS_PAYLOAD", Obj(<<Prop("rules", Arr(<<A_r3>>))>>))>>)}

InitPurity ==
    /\ op = "init"
    /\ schema = NormSchema
    /\ rules \in PurityRuleLists
    /\ vals \in EvalBags
    /\ base \in {None, EvalBaseline}
    /\ ref \in [state : PurityStates,
                payloadOverride : {Undef, Obj(<<Prop("rules", Arr(<<A_r2, A_r3>>))>>)}]
    /\ pos = 0 /\ out = None
    /\ out2 = [warnedNoBaseline |-> FALSE, called |-> {},
               first |-> [n \in EntryPoints |-> None]]

\* The first result of each entry point called so far, result included
FirstResults(name, result) ==
    IF name \in out2.called THEN out2.first ELSE [out2.first EXCEPT ![name] = result]

\* resolveRulesForState(state, payloadOverride): view = { ...state },
\* view.payload = { ...(state.payload || {}), ...payloadOverride }
\* (rules-core.js:138-150)
CallResolveRules ==
    /\ pos < MaxCalls
    /\ pos' = pos + 1
    /\ op' = "resolveRulesForState"
    /\ out' = resolveRulesForState(ref.state, ref.payloadOverride)
    /\ ref' = [ref EXCEPT !.state = ArgAfterWrites(@, ViewOf(@, ref.payloadOverride))]
    /\ out2' = [out2 EXCEPT !.first = FirstResults("resolveRulesForState", out'),
                             !.called = @ \cup {"resolveRulesForState"}]
    /\ UNCHANGED <<schema, vals, rules, base>>

\* normalizeHeadingsRulesForSchema(schema, rules, baseline)
\* (rules-core.js:741-791)
CallNormalizeHeadings ==
    /\ pos < MaxCalls
    /\ pos' = pos + 1
    /\ op' = "normalizeHeadingsRulesForSchema"
    /\ out' = NormalizeHeadingsRulesForSchema(schema, rules, BaselineFlat)
    /\ rules' = RulesAfterNormalize(rules, PushedHeadingRules(schema, rules, BaselineFlat))
    /\ out2' = [warnedNoBaseline |->
                    WarnedAfter(out2.warnedNoBaseline, BaselineFlat,
                                PushedHeadingRules(schema, rules, BaselineFlat)),
                called |-> out2.called \cup {"normalizeHeadingsRulesForSchema"},
                first |-> FirstResults("normalizeHeadingsRulesForSchema", out')]
    /\ UNCHANGED <<schema, vals, base, ref>>

\* normalizeFieldRulesForSchema(schema, rules) (rules-core.js:793-938)
CallNormalizeFields ==
    /\ pos < MaxCalls
    /\ pos' = pos + 1
    /\ op' = "normalizeFieldRulesForSchema"
    /\ out' = NormalizeFieldRulesForSchema(schema, rules)
    /\ rules' = RulesAfterNormalize(rules,
                    [i \in 1..Len(rules) |-> NormalizeFieldRule(schema, rules[i])])
    /\ out2' = [out2 EXCEPT !.first = FirstResults("normalizeFieldRulesForSchema", out'),
                             !.called = @ \cup {"normalizeFieldRulesForSchema"}]
    /\ UNCHANGED <<schema, vals, base, ref>>

\* evaluateRulesToVisibility(schema, values, rules, resolver): every write
\* goes to the map it creates (rules-core.js:951-1065)
CallEvaluateHeadings ==
    /\ pos < MaxCalls
    /\ pos' = pos + 1
    /\ op' = "evaluateRulesToVisibility"
    /\ out' = EvaluateRulesToVisibility(schema, vals, rules, Resolver)
    /\ out2' = [out2 EXCEPT !.first = FirstResults("evaluateRulesToVisibility", out'),
                             !.called = @ \cup {"evaluateRulesToVisibility"}]
    /\ UNCHANGED <<schema, vals, rules, base, ref>>

\* evaluateFieldRulesToVisibility(schema, values, rules)
\* (rules-core.js:1069-1182)
CallEvaluateFields ==
    /\ pos < MaxCalls
    /\ pos' = pos + 1
    /\ op' = "evaluateFieldRulesToVisibility"
    /\ out' = EvaluateFieldRulesToVisibility(schema, vals, rules)
    /\ out2' = [out2 EXCEPT !.first = FirstResults("evaluateFieldRulesToVisibility", out'),
                             !.called = @ \cup {"evaluateFieldRulesToVisibility"}]
    /\ UNCHANGED <<schema, vals, rules, base, ref>>

NextPurity ==
    \/ CallResolveRules \/ CallNormalizeHeadings \/ CallNormalizeFields
    \/ CallEvaluateHeadings \/ CallEvaluateFields

SpecPurity == InitPurity /\ [][NextPurity]_vars

ExpectedItems(r) ==
    IF RuleExpected(r).t = "arr" THEN RuleExpected(r).v ELSE <<RuleExpected(r)>>

\* The trigger of raw resolves to a select or multichoice field, raw
\* supplies an expected value, and the option rewrite leaves raw alone
ChoiceTrigger(raw) ==
    /\ TriggerResolves(raw)
    /\ ResolveFieldRef(schema, TriggerRef(raw)).type \in {"select", "multichoice"}
    /\ RuleExpected(raw) # Undef
    /\ NormalizeWhenOptionRefAgainstSchema(schema, raw) = raw

\* C23: a normalized rule whose trigger is a select or multichoice field
\* carries, where the evaluator reads its expected value (values, else
\* value, else expected), a sequence of exactly the items the raw rule
\* supplied under whichever of the three keys it used.
C23_ExpectedKept ==
    Normalizing =>
        \A i \in 1..pos :
            ChoiceTrigger(rules[i]) =>
                RuleExpected(out[EmittedRank(i)]) = Arr(ExpectedItems(rules[i]))


(***************************************************************************)
(* AND-conditions: one SHOW rule with conditions is evaluated by either    *)
(* pass (`out`); `out2` holds what the same pass returns for the rule      *)
(* without its conditions and for each condition taken as a rule.          *)
(***************************************************************************)

\* Most conditions on the rule
MaxConditions == 2

C_topGt ==
    [EmptyCond EXCEPT !.fieldId = Str(S_top), !.op = Str(S_gt), !.values = Arr(<<Num(3)>>)]
C_dayGt ==
    [EmptyCond EXCEPT !.fieldId = Str(S_b), !.operator = Str(S_gt), !.value = Str(S_day5)]
C_dayEquals ==
    [EmptyCond EXCEPT !.leftFieldId = Str(S_b), !.expected = Str(S_day7)]
C_option ==
    [EmptyCond EXCEPT !.fieldId = Str(S_a_opt_red), !.values = Str(S_true)]
C_zone ==
    [EmptyCond EXCEPT !.rightFieldId = Str(S_m), !.op = Str(S_anyOf),
                      !.values = Arr(<<Str(S_N)>>)]
C_noRef == [EmptyCond EXCEPT !.op = Str(S_isEmpty)]

ConditionPool == {C_topGt, C_dayGt, C_dayEquals, C_option, C_zone, C_noRef}

\* Base triggers: on the select field, and on the date field
R_whenA(cs) ==
    [EmptyRule EXCEPT !.action = Str(S_SHOW), !.fieldId = Str(S_a), !.op = Str(S_equals),
        !.values = Arr(<<Str(S_r)>>), !.conditions = Arr(cs), !.targets = Arr(<<T_5>>)]
R_whenDay(cs) ==
    [EmptyRule EXCEPT !.action = Str(S_SHOW), !.fieldId = Str(S_b), !.op = Str(S_gte),
        !.values = Arr(<<Str(S_day5)>>), !.conditions = Arr(cs), !.targets = Arr(<<T_5>>)]

ConditionBags ==
    UNION {{ [k \in {S_a, S_m, S_top} \cup K |->
                 IF k = S_a THEN a ELSE IF k = S_m THEN Arr(<<Str(S_N)>>)
                 ELSE IF k = S_top THEN top ELSE d] :
             a \in {Str(S_r), Str(S_x)}, top \in {Num(5), Num(2)},
             d \in {Str(S_day5), Str(S_day7)} } : K \in {{}, {S_b}}}

InitCondition ==
    /\ op = "init"
    /\ schema = EvalSchema
    /\ vals \in ConditionBags
    /\ \E cs \in SeqsUpTo(ConditionPool, MaxConditions) :
          rules \in {<<R_whenA(cs)>>, <<R_whenDay(cs)>>}
    /\ base = EvalBaseline
    /\ ref = None /\ pos = 0 /\ out = None /\ out2 = None

\* The rule without its conditions
WithoutConditions(r) == [r EXCEPT !.conditions = Undef]

\* A condition-free rule whose trigger, operator and expected value are
\* those of condition c, with the targets of r
ConditionAsRule(r, c) ==
    [EmptyRule EXCEPT !.action = r.action, !.targets = r.targets,
        !.fieldId = Coalesce(c.fieldId, Coalesce(c.leftFieldId, c.rightFieldId)),
        !.op = c.op, !.operator = c.operator,
        !.values = c.values, !.value = c.value, !.expected = c.expected]

\* evaluateRulesToVisibility(schema, values, [rule], resolver), and the
\* same call for the rule's base trigger and for each of its conditions
EvaluateConditionedHeadings ==
    /\ op = "init"
    /\ op' = "evaluateRulesToVisibility"
    /\ out' = EvaluateRulesToVisibility(schema, vals, rules, Resolver)
    /\ out2' = [base |-> EvaluateRulesToVisibility(schema, vals,
                            <<WithoutConditions(rules[1])>>, Resolver),
                conds |-> [i \in 1..Len(rules[1].conditions.v) |->
                             EvaluateRulesToVisibility(schema, vals,
                                <<ConditionAsRule(rules[1], rules[1].conditions.v[i])>>,
                                Resolver)]]
    /\ UNCHANGED <<schema, vals, rules, base, ref, pos>>

\* evaluateFieldRulesToVisibility(schema, values, [rule]), and the same
\* call for the rule's base trigger and for each of its conditions
EvaluateConditionedFields ==
    /\ op = "init"
    /\ op' = "evaluateFieldRulesToVisibility"
    /\ out' = EvaluateFieldRulesToVisibility(schema, vals, rules)
    /\ out2' = [base |-> EvaluateFieldRulesToVisibility(schema, vals,
                            <<WithoutConditions(rules[1])>>),
                conds |-> [i \in 1..Len(rules[1].conditions.v) |->
                             EvaluateFieldRulesToVisibility(schema, vals,
                                <<ConditionAsRule(rules[1], rules[1].conditions.v[i])>>)]]
    /\ UNCHANGED <<schema, vals, rules, base, ref, pos>>

NextCondition == EvaluateConditionedHeadings \/ EvaluateConditionedFields

SpecCondition == InitCondition /\ [][NextCondition]_vars

\* C24: a rule with AND-conditions matches if and only if its base
\* trigger matches and, for every condition, a condition-free rule with
\* the condition's trigger, operator and expected value matches on the
\* same values -- conditions on date fields included.
C24_ConditionsAsTriggers ==
    op \in {"evaluateRulesToVisibility", "evaluateFieldRulesToVisibility"} =>
        ((DOMAIN out # {}) <=>
            /\ DOMAIN out2.base # {}
            /\ \A i \in DOMAIN out2.conds : DOMAIN out2.conds[i] # {})

\* Some condition of the rule names the date field
HasDateCondition ==
    \E i \in 1..Len(rules[1].conditions.v) :
        Str(S_b) \in {rules[1].conditions.v[i].fieldId, rules[1].conditions.v[i].leftFieldId}


\* The target names a schema field, by its id or by an option composite
\* of it
WellFormedFieldTarget(tg) ==
    /\ tg.fieldId.t = "str"
    /\ tg.fieldId.v \in FieldIds(schema)
    /\ tg.id.t = "str"
    /\ \/ tg.id = tg.fieldId
       \/ /\ Len(tg.id.v) >= Len(tg.fieldId.v) + Len(OPT)
          /\ SubSeq(tg.id.v, 1, Len(tg.fieldId.v) + Len(OPT)) = tg.fieldId.v \o OPT

\* C25: every target emitted by normalizeFieldRulesForSchema has a fieldId
\* that is the id of a schema field and an id that is that field id or
\* '<fieldId>__opt__<slug>', whatever the shape of the raw target -- an
\* object with optionValue/optionLabel whose own id is an option composite
\* included.
C25_FieldTargetsWellFormed ==
    op = "normalizeFieldRulesForSchema" =>
        \A i \in 1..Len(out) :
            \A j \in 1..Len(out[i].targets.v) :
                WellFormedFieldTarget(out[i].targets.v[j])


\* The record carries a finite numeric idx of its own
RealIdx(h) == ~IsNullish(h.idx) /\ ToNumber(h.idx) # NaN

\* The by-idx key of the record at place i of the baseline: its own idx,
\* or its array position when it has none
IndexKey(i) ==
    ToStr(IF RealIdx(base[i]) THEN ToNumber(base[i].idx) ELSE Num(i - 1))

\* C26: in the heading index a record with a finite numeric idx is keyed
\* by that idx and a record without a usable idx (absent, null,
\* non-numeric) by its array position; the by-idx entry of a record that
\* carries a real idx is never the entry of a record whose idx was derived
\* from its array position.
C26_RealIdxEntryKept ==
    op = "normalizeTarget" =>
        /\ \A i \in 1..Len(base) : MapHas(BuildHeadingTargetIndex(base).byIdx, IndexKey(i))
        /\ \A i, j \in 1..Len(base) :
              (RealIdx(base[i]) /\ ~RealIdx(base[j])) =>
                  MapGet(BuildHeadingTargetIndex(base).byIdx, IndexKey(i))
                      # HeadingEntry(base[j], j - 1)


\* The options of a field, flat ones and grouped items alike
AllOptions(f) ==
    {f.options[i] : i \in 1..Len(f.options)}
        \cup UNION {{f.groups[g][i] : i \in 1..Len(f.groups[g])} : g \in 1..Len(f.groups)}

\* s is, up to case, the value or the label of option o
NamesOption(s, o) ==
    \/ (~IsNullish(o.value) /\ ToLower(Trim(ToStr(o.value))) = ToLower(s))
    \/ (~IsNullish(o.label) /\ ToLower(Trim(ToStr(o.label))) = ToLower(s))

\* s is, up to case, the id or the label of field f
NamesField(s, f) ==
    \/ f.id = s
    \/ (f.label # <<>> /\ ToLower(Trim(f.label)) = ToLower(s))

\* C27: a reference that equals, up to case, the value or the label of an
\* option -- flat or grouped -- and names no field by id or label resolves
\* to a field owning such an option; the resolver returns null only when
\* no strategy matches.
C27_OptionNamesResolve ==
    (op = "resolveFieldRef" /\ Trim(ref.v) # <<>>) =>
        \A i \in 1..Len(schema) :
            \A o \in AllOptions(schema[i]) :
                (/\ NamesOption(Trim(ref.v), o)
                 /\ \A j \in 1..Len(schema) : ~NamesField(Trim(ref.v), schema[j]))
                    => /\ out # Null
                       /\ \E o2 \in AllOptions(out) : NamesOption(Trim(ref.v), o2)


(***************************************************************************)
(* normalizeRuleCollection on object graphs (rules-core.js:23-68).         *)
(*                                                                         *)
(* `ref` is the heap: the objects by address, each with the addresses of   *)
(* its members in iteration order.  A "rule" is a rule-like object, "obj"  *)
(* a wrapper object that is not rule-like, "json" a string JSON.parse      *)
(* decodes (its one member is the decoded value), "str" any other string.  *)
(* `pos` is the call stack of inner(), one frame per array, set, wrapper   *)
(* or decoded value being walked; `out` is acc, the addresses pushed.      *)
(* The engine raises RangeError when the stack would pass MaxStack frames. *)
(***************************************************************************)

\* Objects on the heap; the raw value handed in is at address 1
HeapSize == 3
\* Most members of an array, set or wrapper
MaxKids == 2
\* Most frames of inner() the engine allows; deeper than any acyclic heap
MaxStack == 5

Addr == 1..HeapSize

Node(kind, kids) == [t |-> kind, kids |-> kids]

\* Arrays, sets and decoded JSON hold values created after them; only a
\* wrapper object may refer to any object, itself included
NodesAt(i) ==
    {Node("rule", <<>>), Node("str", <<>>), Node("null", <<>>)}
        \cup {Node(k, ks) : k \in {"arr", "set"}, ks \in SeqsUpTo((i + 1)..HeapSize, MaxKids)}
        \cup {Node("json", <<j>>) : j \in (i + 1)..HeapSize}
        \cup {Node("obj", ks) : ks \in SeqsUpTo(Addr, MaxKids)}

\* The addresses reachable from those in S in at most n steps
RECURSIVE ReachFrom(_, _, _)
ReachFrom(h, S, n) ==
    IF n = 0 THEN S
    ELSE ReachFrom(h, S \cup UNION {{h[j].kids[k] : k \in 1..Len(h[j].kids)} : j \in S}, n - 1)

\* Every member of the object at j was created after it
ForwardOnly(h, j) == \A k \in 1..Len(h[j].kids) : h[j].kids[k] > j

\* What JSON.parse returns is a tree of fresh values
JsonDecodesTrees(h) ==
    \A i \in Addr :
        h[i].t = "json" =>
            \A j \in ReachFrom(h, {h[i].kids[1]}, HeapSize) : ForwardOnly(h, j)

HeapPool ==
    {h \in [Addr -> UNION {NodesAt(i) : i \in Addr}] :
        /\ \A i \in Addr : h[i] \in NodesAt(i)
        /\ JsonDecodesTrees(h)}

InitCollect ==
    /\ op = "init"
    /\ ref \in HeapPool
    /\ schema = None /\ vals = None /\ rules = None /\ base = None
    /\ pos = <<>> /\ out = None /\ out2 = None

Frame(todo, inTry) == [todo |-> todo, try |-> inTry]

\* The value inner() is looking at, and the stack once it is taken
CurrentVal == ref[Head(pos[Len(pos)].todo)]
Advanced == [pos EXCEPT ![Len(pos)].todo = Tail(@)]
Walking == op = "inner" /\ pos # <<>> /\ pos[Len(pos)].todo # <<>>

\* const acc = []; inner(raw) (rules-core.js:24, 66)
BeginCollect ==
    /\ op = "init"
    /\ op' = "inner"
    /\ pos' = <<Frame(<<1>>, FALSE)>>
    /\ out' = <<>>
    /\ UNCHANGED <<schema, vals, rules, base, ref, out2>>

\* if (val == null) return; a string JSON.parse rejects (rules-core.js:27, 38-47)
SkipValue ==
    /\ Walking
    /\ CurrentVal.t \in {"null", "str"}
    /\ pos' = Advanced
    /\ UNCHANGED <<op, schema, vals, rules, base, ref, out, out2>>

\* acc.push(maybeRule); return (rules-core.js:49-59)
PushRule ==
    /\ Walking
    /\ CurrentVal.t = "rule"
    /\ out' = Append(out, Head(pos[Len(pos)].todo))
    /\ pos' = Advanced
    /\ UNCHANGED <<op, schema, vals, rules, base, ref, out2>>

\* for (const v of val) inner(v), for (const v of Object.values(maybeRule))
\* inner(v) (rules-core.js:29-36, 60)
WalkMembers ==
    /\ Walking
    /\ CurrentVal.t \in {"arr", "set", "obj"}
    /\ Len(pos) < MaxStack
    /\ pos' = Append(Advanced, Frame(CurrentVal.kids, FALSE))
    /\ UNCHANGED <<op, schema, vals, rules, base, ref, out, out2>>

\* try { inner(JSON.parse(t)) } (rules-core.js:41-43)
ParseJson ==
    /\ Walking
    /\ CurrentVal.t = "json"
    /\ Len(pos) < MaxStack
    /\ pos' = Append(Advanced, Frame(CurrentVal.kids, TRUE))
    /\ UNCHANGED <<op, schema, vals, rules, base, ref, out, out2>>

\* inner(v) of a frame returns when its members are all walked
ReturnInner ==
    /\ op = "inner"
    /\ Len(pos) > 1
    /\ pos[Len(pos)].todo = <<>>
    /\ pos' = SubSeq(pos, 1, Len(pos) - 1)
    /\ UNCHANGED <<op, schema, vals, rules, base, ref, out, out2>>

\* The frames below the innermost try
BelowTry(stack) ==
    SubSeq(stack, 1, (CHOOSE i \in 1..Len(stack) :
                        /\ stack[i].try
                        /\ \A j \in (i + 1)..Len(stack) : ~stack[j].try) - 1)

\* The call would pass the engine's stack limit: RangeError, swallowed by
\* the innermost `catch` of a JSON.parse in progress (rules-core.js:43-45),
\* else thrown out of normalizeRuleCollection
StackOverflow ==
    /\ Walking
    /\ CurrentVal.t \in {"arr", "set", "obj", "json"}
    /\ Len(pos) >= MaxStack
    /\ IF \E i \in 1..Len(pos) : pos[i].try
       THEN /\ pos' = BelowTry(pos)
            /\ UNCHANGED <<op, out>>
       ELSE /\ op' = "thrown"
            /\ pos' = <<>>
            /\ out' = Throw
    /\ UNCHANGED <<schema, vals, rules, base, ref, out2>>

\* return acc (rules-core.js:67)
ReturnAcc ==
    /\ op = "inner"
    /\ Len(pos) = 1
    /\ pos[1].todo = <<>>
    /\ op' = "returned"
    /\ pos' = <<>>
    /\ UNCHANGED <<schema, vals, rules, base, ref, out, out2>>

NextCollect ==
    \/ BeginCollect \/ SkipValue \/ PushRule \/ WalkMembers \/ ParseJson
    \/ ReturnInner \/ StackOverflow \/ ReturnAcc

SpecCollect == InitCollect /\ [][NextCollect]_vars

\* The rule-like objects reachable from address a through arrays, sets,
\* decodable strings and wrapper objects, depth-first and left to right
RECURSIVE DfsRules(_, _)
RECURSIVE DfsRulesAll(_, _)
DfsRulesAll(h, as) ==
    IF as = <<>> THEN <<>> ELSE DfsRules(h, Head(as)) \o DfsRulesAll(h, Tail(as))

DfsRules(h, a) ==
    IF h[a].t = "rule" THEN <<a>> ELSE DfsRulesAll(h, h[a].kids)

\* Some object reachable from the raw value is reachable from its own
\* members
CycleReachable ==
    \E j \in ReachFrom(ref, {1}, HeapSize) :
        j \in ReachFrom(ref, {ref[j].kids[k] : k \in 1..Len(ref[j].kids)}, HeapSize)

\* C28: normalizeRuleCollection terminates on every input -- nested
\* JSON-in-JSON strings and wrapper objects with reference cycles included
\* -- and returns, depth-first and left to right, exactly the rule-like
\* objects reachable through arrays, sets, JSON-decodable strings and
\* wrapper objects; other strings contribute nothing.
C28_CollectsReachableRules ==
    op \in {"returned", "thrown"} =>
        /\ op = "returned"
        /\ out = DfsRules(ref, 1)


(***************************************************************************)
(* Field normalization applied twice: `out` is                             *)
(* normalizeFieldRulesForSchema(schema, rules), `out2` the same call on    *)
(* `out`.                                                                  *)
(***************************************************************************)

InitRenormalize ==
    /\ op = "init"
    /\ schema = NormSchema
    /\ rules \in SeqsUpTo(NormRulePool, MaxNormRules)
    /\ base = None /\ vals = None /\ ref = None
    /\ pos = 0 /\ out = None /\ out2 = None

\* out = normalizeFieldRulesForSchema(schema, rules)
NormalizeFieldsOnce ==
    /\ op = "init"
    /\ op' = "normalized"
    /\ out' = NormalizeFieldRulesForSchema(schema, rules)
    /\ UNCHANGED <<schema, vals, rules, base, ref, pos, out2>>

\* out2 = normalizeFieldRulesForSchema(schema, out)
NormalizeFieldsAgain ==
    /\ op = "normalized"
    /\ op' = "renormalized"
    /\ out2' = NormalizeFieldRulesForSchema(schema, out)
    /\ UNCHANGED <<schema, vals, rules, base, ref, pos, out>>

NextRenormalize == NormalizeFieldsOnce \/ NormalizeFieldsAgain

SpecRenormalize == InitRenormalize /\ [][NextRenormalize]_vars

\* C29: field normalization is idempotent -- normalizing the rules
\* normalizeFieldRulesForSchema returned gives the same rules again.
C29_FieldNormalizationIdempotent ==
    op = "renormalized" => out2 = out

\* The first pass emitted a target that names an option
EmittedOptionTarget ==
    \E i \in 1..Len(out) : \E j \in 1..Len(out[i].targets.v) :
        ~IsNullish(out[i].targets.v[j].optionValue)


(***************************************************************************)
(* Option references parsed twice: `out` is                                *)
(* __parseOptionFieldRef(schema, ref), `out2` the same call on out.id.     *)
(***************************************************************************)

\* Most options in the catalog of the field
MaxOptions == 2

S_Same == <<"S","a","m","e">>

\* Options: with and without label, two sharing a label, one whose label
\* has an empty slug
CatalogPool ==
    {Opt(Str(S_r), Str(S_Red)), Opt(Str(S_x), Undef),
     Opt(Str(<<"1">>), Str(S_Same)), Opt(Str(<<"2">>), Str(S_Same)),
     Opt(Str(<<"v">>), Str(<<"!">>))}

ReparseSchemas ==
    {<<Field(S_a, S_Top, "select", os, <<>>)>> \o rest :
        os \in DistinctSeqsUpTo(CatalogPool, MaxOptions), rest \in {<<>>, <<F_top>>}}

\* References: a field part (id, label, unknown) and an option part
\* (slug, label, value, unknown, empty), and a plain field id
ReparseRefs ==
    {f \o OPT \o o :
        f \in {S_a, S_Top, S_zz},
        o \in {S_red, S_Red, S_r, S_x, <<"1">>, <<"2">>, <<"s","a","m","e">>,
               <<"v">>, <<"q">>, <<>>}}
        \cup {S_a}

InitReparse ==
    /\ op = "init"
    /\ schema \in ReparseSchemas
    /\ ref \in {Str(r) : r \in ReparseRefs}
    /\ vals = None /\ rules = None /\ base = None
    /\ pos = 0 /\ out = None /\ out2 = None

\* out = __parseOptionFieldRef(schema, ref)
ParseRef ==
    /\ op = "init"
    /\ op' = "parsed"
    /\ out' = ParseOptionFieldRef(schema, ref)
    /\ UNCHANGED <<schema, vals, rules, base, ref, pos, out2>>

\* out2 = __parseOptionFieldRef(schema, out.id)
ParseId ==
    /\ op = "parsed"
    /\ out # Null
    /\ op' = "reparsed"
    /\ out2' = ParseOptionFieldRef(schema, Str(out.id))
    /\ UNCHANGED <<schema, vals, rules, base, ref, pos, out>>

NextReparse == ParseRef \/ ParseId

SpecReparse == InitReparse /\ [][NextReparse]_vars

\* C30: the id of the descriptor __parseOptionFieldRef returns parses to
\* a descriptor with the same fieldId, id and optionValue, for matched and
\* unmatched options and whatever the options of the catalog and their
\* order.
C30_OptionIdStable ==
    op = "reparsed" =>
        /\ out2.fieldId = out.fieldId
        /\ out2.id = out.id
        /\ out2.optionValue = out.optionValue

\* The catalog of field a holds an option whose slug is empty, or two
\* options one of which answers to the slug of the other
AmbiguousCatalog ==
    \E i, j \in 1..Len(schema[1].options) :
        \/ Slug(OptionEntry(schema[1].options[i]).label) = <<>>
        \/ /\ i # j
           /\ OptionSlugHit(OptionEntry(schema[1].options[j]),
                            Slug(OptionEntry(schema[1].options[i]).label))

====
